---- MODULE Spec2Model ----
(***************************************************************************)
(* A model of the B-tree of datastructurs (src/src/btree/mod.rs and        *)
(* src/src/btree/impls.rs).                                                *)
(*                                                                         *)
(* The node graph is a heap: a function from node addresses to nodes, each *)
(* node holding its key vector, its children vector (addresses) and its    *)
(* parent back-reference.  Vectors are sequences; the source's 0-based     *)
(* indices are kept and converted where a sequence is indexed.             *)
(* Option<T> is a sequence of length at most one: <<>> is None, <<x>> is   *)
(* Some(x).                                                                *)
(*                                                                         *)
(* slice::binary_search returns "any one of the matches" when several keys *)
(* are equal, so every operator that depends on it yields the SET of its   *)
(* possible outcomes and an action chooses one of them.                    *)
(***************************************************************************)
EXTENDS Integers, Sequences, FiniteSets, TLC

\* ---------------------------------------------------------------- bounds
MaxKey == 2
MaxBranchFactor == 3
MaxLen == 9
MaxDegree == 24
MaxAscending == 70
MaxMapKey == 5
MaxValue == 2
MaxReadLen == 5
MaxMapReadLen == 4
MaxThreads == 2
MaxIters == 2
MaxFileKey == 6
MaxCloneCalls == 6
MaxItems == 3
MaxListCalls == 6

Keys == 1..MaxKey
BranchFactors == 0..MaxBranchFactor
MapKeys == 1..MaxMapKey
Values == 1..MaxValue

VARIABLES
    root,       \* BTree.root: address of the root node
    heap,       \* the allocated nodes: address -> Node
    props,      \* BTree.props: BTreeProperties
    panicked,   \* TRUE once an operation has panicked (the program aborted)
    net_calls,  \* insert calls made minus remove/pop calls that returned Some
    bag,        \* reference multiset: key -> inserted minus removed
    pc,         \* scenario: the number of calls of the script gone through
    calls,      \* scenario: the calls of the script that were made, in order
    assoc,      \* map: the reference finite map, key -> Option value
    kind,       \* reader: "tree" for a BTree of integers, "map" for a BTreeMap
    last_op,    \* reader: the last call made, [name, res]
    iter_stack, \* reader: BTreeIter.stack of the live iterator, <<>> if none
    iter_items, \* reader: the items the live iterator has returned so far
    inner,      \* counter: SyncBoxInner, [value, refs]
    threads,    \* counter: the test's threads, [ths, iters, spawning, joined]
    twin,       \* clone: the second handle [made, root, props, bag] and, for
                \* both handles, dropped, stale and double_free
    list        \* list: the IntrusiveList [head, tail, len], the ListLink of
                \* every item (links) and the build profile (debug)

vars == <<root, heap, props, panicked, net_calls, bag, pc, calls, assoc,
          kind, last_op, iter_stack, iter_items, inner, threads, twin,
          list>>

\* the variables of the reader and of the counter
reader_vars == <<kind, last_op, iter_stack, iter_items>>
counter_vars == <<inner, threads>>
clone_vars == <<twin>>
list_vars == <<list>>

\* ------------------------------------------------------- Option and Vec
None == <<>>
Some(x) == <<x>>
is_some(o) == o # <<>>
unwrap(o) == o[1]

\* v[i] with the source's 0-based index
At(v, i) == v[i + 1]

\* v with v[i] = x (0-based)
SetAt(v, i, x) == [v EXCEPT ![i + 1] = x]

\* Vec::insert: the elements from index on move one place up
vec_insert(v, index, elem) ==
    SubSeq(v, 1, index) \o <<elem>> \o SubSeq(v, index + 1, Len(v))

\* Vec::remove: what is left of v
vec_remove(v, index) ==
    SubSeq(v, 1, index) \o SubSeq(v, index + 2, Len(v))

\* Vec::pop: what is left of v
vec_pop(v) == SubSeq(v, 1, Len(v) - 1)

vec_last(v) == v[Len(v)]

\* Vec::split_off: self keeps [0, at), the result holds [at, len)
split_off_self(v, at) == SubSeq(v, 1, at)
split_off_other(v, at) == SubSeq(v, at + 1, Len(v))

\* ------------------------------------------------------------- elements
\* The element type T of a tree is the integers (their own order) or MapPair.
\* A MapPair {key, value} is written as the negative integer
\* -(value * (MaxMapKey + 1) + key), so that trees of either element type are
\* heaps of the same shape; value 0 stands for a pair that is only a probe for
\* its key.
MapPair(key, value) == 0 - (value * (MaxMapKey + 1) + key)
pair_key(pair) == (0 - pair) % (MaxMapKey + 1)
pair_value(pair) == (0 - pair) \div (MaxMapKey + 1)

\* Ord for T: what an element is compared by; a MapPair is compared by its
\* key alone (Ord, PartialOrd, PartialEq for MapPair)
\* an order on pairs that tells pairs of one key apart by their values
ord_with_value(x) == IF x >= 0 THEN x ELSE 0 - x

ord(x) == IF x >= 0 THEN x ELSE pair_key(x)

\* slice::binary_search on a sorted slice: Ok(i) for any i with keys[i] = key,
\* else Err(i) with i the number of keys below key
binary_search(keys, key) ==
    LET matches == {i \in 1..Len(keys) : ord(keys[i]) = ord(key)}
    IN  IF matches # {}
        THEN {[found |-> TRUE, idx |-> i - 1] : i \in matches}
        ELSE {[found |-> FALSE,
               idx |-> Cardinality({i \in 1..Len(keys) : ord(keys[i]) < ord(key)})]}

\* ------------------------------------------------------------ Node, heap
Node(keys, children, parent) ==
    [keys |-> keys, children |-> children, parent |-> parent]

\* Node::new
Node_new(parent) == Node(<<>>, <<>>, parent)

is_leaf(node) == node.children = <<>>

\* A machine state threaded through the helpers: the heap and the panic flag,
\* and for each entry into insert_non_full the node entered
Mach(h) == [heap |-> h, panic |-> FALSE, entered |-> <<>>]
Abort(m) == [m EXCEPT !.panic = TRUE]

\* Node::store_on_heap: the address of a new allocation
fresh(h) ==
    CHOOSE a \in 1..(Cardinality(DOMAIN h) + 1) :
        a \notin DOMAIN h /\ \A b \in 1..(a - 1) : b \in DOMAIN h

store_on_heap(h, node) == h @@ (fresh(h) :> node)

\* Node::drop with the Drop impl of Node: frees the node and, recursively,
\* every node in its children vector
RECURSIVE drop_all(_, _)
drop_all(h, ptrs) ==
    IF ptrs = {} THEN h
    ELSE LET live == ptrs \cap DOMAIN h
             below == UNION {{h[a].children[i] : i \in 1..Len(h[a].children)} : a \in live}
         IN  IF live = {} THEN h
             ELSE drop_all([a \in DOMAIN h \ live |-> h[a]], below)

\* a drop that frees the node and leaves what it owns allocated
Node_drop_node_alone(h, node_ptr) == [a \in DOMAIN h \ {node_ptr} |-> h[a]]

Node_drop(h, node_ptr) == drop_all(h, {node_ptr})

\* ------------------------------------------------------- BTreeProperties
BTreeProperties_new(degree) ==
    [degree |-> degree,
     max_keys |-> degree - 1,
     min_keys |-> degree \div 2,
     mid_key_index |-> (degree - 1) \div 2,
     len |-> 0]

\* an assert that lets degree 2 through
BTreeProperties_new_panics_below_two(degree) == ~(degree >= 2)

\* BTreeProperties::new: whether assert!(degree >= 3) fails
BTreeProperties_new_panics(degree) == ~(degree >= 3)

\* a fullness test that lets a node take one key more before it is split
is_full_above_max(p, h, node_ptr) == Len(h[node_ptr].keys) > p.max_keys

is_full(p, h, node_ptr) == Len(h[node_ptr].keys) >= p.max_keys

\* a split that leaves all the children with the left half
split_child_keeps_children(p, m, parent_ptr, child_index) ==
    LET parent == m.heap[parent_ptr]
        child_ptr == At(parent.children, child_index)
        child == m.heap[child_ptr]
        at == p.mid_key_index + 1
    IN  IF Len(child.keys) < at
        THEN Abort(m)
        ELSE
        LET right_keys == split_off_other(child.keys, at)
            left_keys == split_off_self(child.keys, at)
            middle_key == vec_last(left_keys)
            h1 == [m.heap EXCEPT ![child_ptr] =
                      Node(vec_pop(left_keys), child.children, child.parent)]
            new_child_node == fresh(h1)
            h2 == store_on_heap(h1, Node(right_keys, <<>>, Some(parent_ptr)))
        IN  [m EXCEPT !.heap = [h2 EXCEPT ![parent_ptr] =
                Node(vec_insert(parent.keys, child_index, middle_key),
                     vec_insert(parent.children, child_index + 1, new_child_node),
                     parent.parent)]]

split_child(p, m, parent_ptr, child_index) ==
    LET parent == m.heap[parent_ptr]
        child_ptr == At(parent.children, child_index)
        child == m.heap[child_ptr]
        at == p.mid_key_index + 1
    IN  IF \/ Len(child.keys) < at
           \/ (~is_leaf(child) /\ Len(child.children) < at)
        THEN Abort(m)
        ELSE
        LET right_keys == split_off_other(child.keys, at)
            left_keys == split_off_self(child.keys, at)
            middle_key == vec_last(left_keys)
            right_children == IF ~is_leaf(child)
                              THEN split_off_other(child.children, at)
                              ELSE <<>>
            left_children == IF ~is_leaf(child)
                             THEN split_off_self(child.children, at)
                             ELSE child.children
            h1 == [m.heap EXCEPT ![child_ptr] =
                      Node(vec_pop(left_keys), left_children, child.parent)]
            new_child_node == fresh(h1)
            h2 == store_on_heap(h1, Node(right_keys, right_children, Some(parent_ptr)))
        IN  [m EXCEPT !.heap = [h2 EXCEPT ![parent_ptr] =
                Node(vec_insert(parent.keys, child_index, middle_key),
                     vec_insert(parent.children, child_index + 1, new_child_node),
                     parent.parent)]]

find_insertion_index(keys, key) == {r.idx : r \in binary_search(keys, key)}

\* a descent that compares the wrong way round
final_index_reversed(keys, index, key) ==
    IF index < Len(keys) /\ ord(key) < ord(At(keys, index)) THEN index + 1 ELSE index

\* a descent that goes right of a separator equal to the key
final_index_right_of_equal(keys, index, key) ==
    IF index < Len(keys) /\ ord(At(keys, index)) <= ord(key) THEN index + 1 ELSE index

\* insert_non_full after a split: the child to recurse into
final_index(keys, index, key) ==
    IF index < Len(keys) /\ ord(At(keys, index)) < ord(key) THEN index + 1 ELSE index

\* insert_non_full is entered on node_ptr: the node, the number of keys it
\* holds and the addresses allocated so far
enter(m, node_ptr) ==
    [m EXCEPT !.entered = Append(@, [node_ptr |-> node_ptr,
                                      keys |-> Len(m.heap[node_ptr].keys),
                                      allocated |-> DOMAIN m.heap])]

RECURSIVE insert_non_full(_, _, _, _)
insert_non_full(p, m0, node_ptr, key) ==
    IF m0.panic THEN {m0}
    ELSE
    LET m == enter(m0, node_ptr)
        node == m.heap[node_ptr]
    IN  UNION {
          IF is_leaf(node)
          THEN {[m EXCEPT !.heap[node_ptr].keys = vec_insert(node.keys, index, key)]}
          ELSE IF index >= Len(node.children)
          THEN {Abort(m)}
          ELSE IF is_full(p, m.heap, At(node.children, index))
          THEN LET m2 == split_child(p, m, node_ptr, index)
                   node2 == m2.heap[node_ptr]
               IN  IF m2.panic THEN {m2}
                   ELSE insert_non_full(p, m2,
                            At(node2.children, final_index(node2.keys, index, key)),
                            key)
          ELSE insert_non_full(p, m, At(node.children, index), key)
        : index \in find_insertion_index(node.keys, key)}

\* ----------------------------------------------------------------- BTree
\* BTree::contains: whether binary_search finds key matters, not where
RECURSIVE contains_from(_, _, _)
contains_from(h, node_ptr, key) ==
    LET current == h[node_ptr]
        rs == binary_search(current.keys, key)
    IN  IF \E r \in rs : r.found THEN TRUE
        ELSE IF is_leaf(current) THEN FALSE
        ELSE \E r \in rs : contains_from(h, At(current.children, r.idx), key)

\* a lookup that never leaves the root node
contains_root_only(h, r, key) ==
    \E res \in binary_search(h[r].keys, key) : res.found

contains(h, r, key) == contains_from(h, r, key)

\* BTree::new on the heap h: the root is allocated first, then
\* BTreeProperties::new asserts; on a panic no tree is returned and the props
\* field holds what the struct literal was about to be given
BTree_new(h, branch_factor) ==
    LET degree == 2 * branch_factor
    IN  [heap |-> store_on_heap(h, Node_new(None)),
         root |-> fresh(h),
         panic |-> BTreeProperties_new_panics(degree),
         props |-> BTreeProperties_new(degree)]

\* BTree::clear: *self = Self::new(self.props.degree * 2); the assignment
\* drops the old tree (Drop for BTree frees the old root and all below it)
clear(p, h, r) ==
    LET t == BTree_new(h, p.degree * 2)
    IN  [t EXCEPT !.heap = IF t.panic THEN t.heap ELSE Node_drop(t.heap, r)]

is_empty(h, r) == h[r].keys = <<>>

\* BTree::height: 0 on an empty tree, else the number of levels
RECURSIVE height_from(_, _)
height_from(h, node_ptr) ==
    IF is_leaf(h[node_ptr]) THEN 1
    ELSE 1 + height_from(h, At(h[node_ptr].children, 0))

height(h, r) == IF is_empty(h, r) THEN 0 ELSE height_from(h, r)

\* BTree::first / BTree::last: None on an empty tree, else the first (last)
\* key of the leftmost (rightmost) leaf
RECURSIVE first_from(_, _)
first_from(h, node_ptr) ==
    LET current == h[node_ptr]
    IN  IF is_leaf(current) THEN Some(current.keys[1])
        ELSE first_from(h, current.children[1])

\* a first() that stops at the root node
first_of_root(h, r) == IF is_empty(h, r) THEN None ELSE Some(h[r].keys[1])

first(h, r) == IF is_empty(h, r) THEN None ELSE first_from(h, r)

RECURSIVE last_from(_, _)
last_from(h, node_ptr) ==
    LET current == h[node_ptr]
    IN  IF is_leaf(current) THEN Some(vec_last(current.keys))
        ELSE last_from(h, vec_last(current.children))

last_key(h, r) == IF is_empty(h, r) THEN None ELSE last_from(h, r)

RECURSIVE depth_from(_, _)
depth_from(h, node_ptr) ==
    IF is_leaf(h[node_ptr]) THEN 1
    ELSE 1 + depth_from(h, h[node_ptr].children[1])

depth(h, r) == depth_from(h, r)

\* BTree::node_count
RECURSIVE node_count_inner(_, _)
RECURSIVE node_count_children(_, _, _)
node_count_children(h, children, i) ==
    IF i > Len(children) THEN 0
    ELSE node_count_inner(h, children[i]) + node_count_children(h, children, i + 1)

node_count_inner(h, node_ptr) == 1 + node_count_children(h, h[node_ptr].children, 1)

node_count(h, r) == node_count_inner(h, r)

\* an insert that never splits the root
insert_split_root_never(p, h, r) == Mach(h)

\* BTree::insert up to the call of insert_non_full: the root split
insert_split_root(p, h, r) ==
    IF is_full(p, h, r)
    THEN LET old_root == [h[r] EXCEPT !.parent = Some(r)]
             h1 == [h EXCEPT ![r] = Node_new(None)]
             old_root_ptr == fresh(h1)
             h2 == store_on_heap(h1, old_root)
             h3 == [h2 EXCEPT ![r].children = Append(@, old_root_ptr)]
         IN  split_child(p, Mach(h3), r, 0)
    ELSE Mach(h)

\* an insert that leaves the tree alone when an equal key is stored
insert_dedup(p, h, r, key) ==
    IF contains(h, r, key) THEN {[heap |-> h, panic |-> FALSE, props |-> p]}
    ELSE { [heap |-> m.heap,
            panic |-> m.panic,
            props |-> IF m.panic THEN p ELSE [p EXCEPT !.len = @ + 1]]
           : m \in insert_non_full(p, insert_split_root(p, h, r), r, key) }

\* BTree::insert: the possible results [heap, panic, props]
insert(p, h, r, key) ==
    { [heap |-> m.heap,
       panic |-> m.panic,
       props |-> IF m.panic THEN p ELSE [p EXCEPT !.len = @ + 1]]
      : m \in insert_non_full(p, insert_split_root(p, h, r), r, key) }

\* --------------------------------------------------------------- removal
\* None when the unwrap of the last key of an empty leaf panics
RECURSIVE get_predecessor(_, _)
get_predecessor(h, node_ptr) ==
    LET current == h[node_ptr]
    IN  IF ~is_leaf(current)
        THEN get_predecessor(h, At(current.children, Len(current.children) - 1))
        ELSE IF current.keys = <<>> THEN None
        ELSE Some(vec_last(current.keys))

\* None when keys[0] of an empty leaf is out of bounds
RECURSIVE get_successor(_, _)
get_successor(h, node_ptr) ==
    LET current == h[node_ptr]
    IN  IF ~is_leaf(current)
        THEN get_successor(h, At(current.children, 0))
        ELSE IF current.keys = <<>> THEN None
        ELSE Some(At(current.keys, 0))

borrow_from_left_sibling(m, parent_ptr, child_idx) ==
    LET parent == m.heap[parent_ptr]
    IN  IF child_idx - 1 >= Len(parent.keys) \/ child_idx >= Len(parent.children)
        THEN Abort(m)
        ELSE
        LET child_ptr == At(parent.children, child_idx)
            left_sibling_ptr == At(parent.children, child_idx - 1)
            separator_key == At(parent.keys, child_idx - 1)
            left_sibling == m.heap[left_sibling_ptr]
            child == m.heap[child_ptr]
        IN  IF left_sibling.keys = <<>> THEN Abort(m)
            ELSE
            LET borrowed_key == vec_last(left_sibling.keys)
                borrowed_child == IF ~is_leaf(left_sibling)
                                  THEN Some(vec_last(left_sibling.children))
                                  ELSE None
                h1 == [m.heap EXCEPT
                         ![left_sibling_ptr].keys = vec_pop(@),
                         ![left_sibling_ptr].children =
                             IF is_some(borrowed_child) THEN vec_pop(@) ELSE @,
                         ![parent_ptr].keys = SetAt(@, child_idx - 1, borrowed_key),
                         ![child_ptr].keys = vec_insert(@, 0, separator_key),
                         ![child_ptr].children =
                             IF is_some(borrowed_child)
                             THEN vec_insert(@, 0, unwrap(borrowed_child))
                             ELSE @]
            IN  [m EXCEPT !.heap =
                    IF is_some(borrowed_child)
                    THEN [h1 EXCEPT ![unwrap(borrowed_child)].parent = Some(child_ptr)]
                    ELSE h1]

\* a borrow that copies the right sibling's first key up and leaves it in the
\* sibling as well
borrow_from_right_sibling_keeps_key(m, parent_ptr, child_idx) ==
    LET parent == m.heap[parent_ptr]
    IN  IF child_idx >= Len(parent.keys) \/ child_idx + 1 >= Len(parent.children)
        THEN Abort(m)
        ELSE
        LET child_ptr == At(parent.children, child_idx)
            right_sibling_ptr == At(parent.children, child_idx + 1)
            right_sibling == m.heap[right_sibling_ptr]
        IN  IF right_sibling.keys = <<>> \/ ~is_leaf(right_sibling) THEN Abort(m)
            ELSE [m EXCEPT !.heap =
                    [m.heap EXCEPT
                       ![parent_ptr].keys = SetAt(@, child_idx, At(right_sibling.keys, 0)),
                       ![child_ptr].keys = Append(@, At(parent.keys, child_idx))]]

borrow_from_right_sibling(m, parent_ptr, child_idx) ==
    LET parent == m.heap[parent_ptr]
    IN  IF child_idx >= Len(parent.keys) \/ child_idx + 1 >= Len(parent.children)
        THEN Abort(m)
        ELSE
        LET child_ptr == At(parent.children, child_idx)
            right_sibling_ptr == At(parent.children, child_idx + 1)
            separator_key == At(parent.keys, child_idx)
            right_sibling == m.heap[right_sibling_ptr]
            child == m.heap[child_ptr]
        IN  IF right_sibling.keys = <<>> THEN Abort(m)
            ELSE
            LET borrowed_key == At(right_sibling.keys, 0)
                borrowed_child == IF ~is_leaf(right_sibling)
                                  THEN Some(At(right_sibling.children, 0))
                                  ELSE None
                h1 == [m.heap EXCEPT
                         ![right_sibling_ptr].keys = vec_remove(@, 0),
                         ![right_sibling_ptr].children =
                             IF is_some(borrowed_child) THEN vec_remove(@, 0) ELSE @,
                         ![parent_ptr].keys = SetAt(@, child_idx, borrowed_key),
                         ![child_ptr].keys = Append(@, separator_key),
                         ![child_ptr].children =
                             IF is_some(borrowed_child)
                             THEN Append(@, unwrap(borrowed_child))
                             ELSE @]
            IN  [m EXCEPT !.heap =
                    IF is_some(borrowed_child)
                    THEN [h1 EXCEPT ![unwrap(borrowed_child)].parent = Some(child_ptr)]
                    ELSE h1]

\* a merge that leaves the right child's children behind
merged_children_left_only(left_children, right_children) == left_children

\* the children of the left child after merge_children
merged_children(left_children, right_children) == left_children \o right_children

\* a merge that forgets the separator
merged_keys_without_separator(left_keys, separator_key, right_keys) ==
    left_keys \o right_keys

\* the keys of the left child after merge_children: its own, the separator,
\* then the right child's
merged_keys(left_keys, separator_key, right_keys) ==
    Append(left_keys, separator_key) \o right_keys

merge_children(m, parent_ptr, separator_idx) ==
    LET parent == m.heap[parent_ptr]
    IN  IF separator_idx < 0
           \/ separator_idx >= Len(parent.keys)
           \/ separator_idx + 1 >= Len(parent.children)
        THEN Abort(m)
        ELSE
        LET left_child_ptr == At(parent.children, separator_idx)
            right_child_ptr == At(parent.children, separator_idx + 1)
            separator_key == At(parent.keys, separator_idx)
            right_keys == m.heap[right_child_ptr].keys
            right_children == m.heap[right_child_ptr].children
            moved == {right_children[i] : i \in 1..Len(right_children)}
            h1 == [m.heap EXCEPT
                     ![parent_ptr].keys = vec_remove(@, separator_idx),
                     ![parent_ptr].children = vec_remove(@, separator_idx + 1),
                     ![right_child_ptr].keys = <<>>,
                     ![right_child_ptr].children = <<>>,
                     ![left_child_ptr].keys = merged_keys(@, separator_key, right_keys),
                     ![left_child_ptr].children = merged_children(@, right_children)]
            h2 == [a \in DOMAIN h1 |->
                     IF a \in moved
                     THEN [h1[a] EXCEPT !.parent = Some(left_child_ptr)]
                     ELSE h1[a]]
        IN  [m EXCEPT !.heap = Node_drop(h2, right_child_ptr)]

\* a rebalancing that merges the last child with a right sibling it lacks
ensure_child_merges_right(p, m, parent_ptr, child_idx) ==
    LET parent == m.heap[parent_ptr]
        has_left == child_idx > 0
        has_right == child_idx < Len(parent.children) - 1
    IN  IF has_left /\ Len(m.heap[At(parent.children, child_idx - 1)].keys) > p.min_keys
        THEN borrow_from_left_sibling(m, parent_ptr, child_idx)
        ELSE IF has_right /\ Len(m.heap[At(parent.children, child_idx + 1)].keys) > p.min_keys
        THEN borrow_from_right_sibling(m, parent_ptr, child_idx)
        ELSE merge_children(m, parent_ptr, child_idx)

\* a rebalancing that, when it cannot borrow, merges with the left sibling
\* whether there is one or not
ensure_child_merges_left(p, m, parent_ptr, child_idx) ==
    LET parent == m.heap[parent_ptr]
        has_left == child_idx > 0
        has_right == child_idx < Len(parent.children) - 1
    IN  IF has_left /\ Len(m.heap[At(parent.children, child_idx - 1)].keys) > p.min_keys
        THEN borrow_from_left_sibling(m, parent_ptr, child_idx)
        ELSE IF has_right /\ Len(m.heap[At(parent.children, child_idx + 1)].keys) > p.min_keys
        THEN borrow_from_right_sibling(m, parent_ptr, child_idx)
        ELSE merge_children(m, parent_ptr, child_idx - 1)

\* a rebalancing that asks the right sibling before the left one
ensure_child_asks_right_first(p, m, parent_ptr, child_idx) ==
    LET parent == m.heap[parent_ptr]
        has_left == child_idx > 0
        has_right == child_idx < Len(parent.children) - 1
    IN  IF has_right /\ Len(m.heap[At(parent.children, child_idx + 1)].keys) > p.min_keys
        THEN borrow_from_right_sibling(m, parent_ptr, child_idx)
        ELSE IF has_left /\ Len(m.heap[At(parent.children, child_idx - 1)].keys) > p.min_keys
        THEN borrow_from_left_sibling(m, parent_ptr, child_idx)
        ELSE IF has_right
        THEN merge_children(m, parent_ptr, child_idx)
        ELSE merge_children(m, parent_ptr, child_idx - 1)

\* BTree::ensure_child_has_enough_keys
ensure_child_has_enough_keys(p, m, parent_ptr, child_idx) ==
    LET parent == m.heap[parent_ptr]
        has_left == child_idx > 0
        has_right == child_idx < Len(parent.children) - 1
    IN  IF has_left /\ Len(m.heap[At(parent.children, child_idx - 1)].keys) > p.min_keys
        THEN borrow_from_left_sibling(m, parent_ptr, child_idx)
        ELSE IF has_right /\ Len(m.heap[At(parent.children, child_idx + 1)].keys) > p.min_keys
        THEN borrow_from_right_sibling(m, parent_ptr, child_idx)
        ELSE IF has_right
        THEN merge_children(m, parent_ptr, child_idx)
        ELSE merge_children(m, parent_ptr, child_idx - 1)

\* An outcome of a removal helper: the machine state and the returned Option
Out(m, res) == [m |-> m, res |-> res]

RECURSIVE remove_from_node(_, _, _, _)
RECURSIVE remove_from_internal_node(_, _, _, _)

\* the found arm of remove_from_node, also taken after a rebalancing
remove_found(p, m, node_ptr, idx) ==
    LET node == m.heap[node_ptr]
    IN  IF is_leaf(node)
        THEN {Out([m EXCEPT !.heap[node_ptr].keys = vec_remove(node.keys, idx)],
                  Some(At(node.keys, idx)))}
        ELSE remove_from_internal_node(p, m, node_ptr, idx)

remove_from_node(p, m, node_ptr, key) ==
    IF m.panic THEN {Out(m, None)}
    ELSE
    LET node == m.heap[node_ptr]
    IN  UNION {
          IF r.found
          THEN remove_found(p, m, node_ptr, r.idx)
          ELSE IF is_leaf(node)
          THEN {Out(m, None)}
          ELSE IF r.idx >= Len(node.children)
          THEN {Out(Abort(m), None)}
          ELSE
          LET child_ptr == At(node.children, r.idx)
          IN  IF Len(m.heap[child_ptr].keys) <= p.min_keys
              THEN LET m2 == ensure_child_has_enough_keys(p, m, node_ptr, r.idx)
                       node2 == m2.heap[node_ptr]
                   IN  IF m2.panic THEN {Out(m2, None)}
                       ELSE UNION {
                              IF r2.found
                              THEN remove_found(p, m2, node_ptr, r2.idx)
                              ELSE IF r2.idx >= Len(node2.children)
                              THEN {Out(Abort(m2), None)}
                              ELSE remove_from_node(p, m2, At(node2.children, r2.idx), key)
                            : r2 \in binary_search(node2.keys, key)}
              ELSE remove_from_node(p, m, child_ptr, key)
        : r \in binary_search(node.keys, key)}

remove_from_internal_node(p, m, node_ptr, key_idx) ==
    IF m.panic THEN {Out(m, None)}
    ELSE
    LET node == m.heap[node_ptr]
    IN  IF key_idx >= Len(node.keys) \/ key_idx + 1 >= Len(node.children)
        THEN {Out(Abort(m), None)}
        ELSE
        LET key == At(node.keys, key_idx)
            left_child == At(node.children, key_idx)
            right_child == At(node.children, key_idx + 1)
        IN  IF Len(m.heap[left_child].keys) > p.min_keys
            THEN LET predecessor == get_predecessor(m.heap, left_child)
                 IN  IF predecessor = None THEN {Out(Abort(m), None)}
                     ELSE LET m1 == [m EXCEPT !.heap[node_ptr].keys =
                                        SetAt(@, key_idx, unwrap(predecessor))]
                          IN  {Out(o.m, Some(key)) :
                                 o \in remove_from_node(p, m1, left_child, unwrap(predecessor))}
            ELSE IF Len(m.heap[right_child].keys) > p.min_keys
            THEN LET successor == get_successor(m.heap, right_child)
                 IN  IF successor = None THEN {Out(Abort(m), None)}
                     ELSE LET m1 == [m EXCEPT !.heap[node_ptr].keys =
                                        SetAt(@, key_idx, unwrap(successor))]
                          IN  {Out(o.m, Some(key)) :
                                 o \in remove_from_node(p, m1, right_child, unwrap(successor))}
            ELSE remove_from_node(p, merge_children(m, node_ptr, key_idx), left_child, key)

\* the call nesting of the removal helpers: the number of frames of
\* remove_from_node and remove_from_internal_node that are open when the
\* innermost call of one run is entered, this frame counted; one number for
\* every run binary_search allows
RECURSIVE remove_from_node_nesting(_, _, _, _)
RECURSIVE remove_from_internal_node_nesting(_, _, _, _)

\* the found arm of remove_from_node: a leaf removes in place, an internal
\* node calls remove_from_internal_node
remove_found_nesting(p, m, node_ptr, idx) ==
    IF is_leaf(m.heap[node_ptr]) THEN {0}
    ELSE remove_from_internal_node_nesting(p, m, node_ptr, idx)

\* a remove_from_node that, after rebalancing a child, calls itself on the
\* same node again
remove_from_node_nesting_restarting(p, m, node_ptr, key) ==
    IF m.panic THEN {0}
    ELSE
    LET node == m.heap[node_ptr]
    IN  UNION {
          IF r.found
          THEN {1 + d : d \in remove_found_nesting(p, m, node_ptr, r.idx)}
          ELSE IF is_leaf(node) \/ r.idx >= Len(node.children)
          THEN {1}
          ELSE
          LET child_ptr == At(node.children, r.idx)
          IN  IF Len(m.heap[child_ptr].keys) <= p.min_keys
              THEN LET m2 == ensure_child_has_enough_keys(p, m, node_ptr, r.idx)
                   IN  IF m2.panic THEN {1}
                       ELSE {1 + d : d \in
                               remove_from_node_nesting(p, m2, node_ptr, key)}
              ELSE {1 + d : d \in remove_from_node_nesting(p, m, child_ptr, key)}
        : r \in binary_search(node.keys, key)}

remove_from_node_nesting(p, m, node_ptr, key) ==
    IF m.panic THEN {0}
    ELSE
    LET node == m.heap[node_ptr]
    IN  UNION {
          IF r.found
          THEN {1 + d : d \in remove_found_nesting(p, m, node_ptr, r.idx)}
          ELSE IF is_leaf(node) \/ r.idx >= Len(node.children)
          THEN {1}
          ELSE
          LET child_ptr == At(node.children, r.idx)
          IN  IF Len(m.heap[child_ptr].keys) <= p.min_keys
              THEN LET m2 == ensure_child_has_enough_keys(p, m, node_ptr, r.idx)
                       node2 == m2.heap[node_ptr]
                   IN  IF m2.panic THEN {1}
                       ELSE UNION {
                              IF r2.found
                              THEN {1 + d : d \in
                                      remove_found_nesting(p, m2, node_ptr, r2.idx)}
                              ELSE IF r2.idx >= Len(node2.children)
                              THEN {1}
                              ELSE {1 + d : d \in
                                      remove_from_node_nesting(
                                          p, m2, At(node2.children, r2.idx), key)}
                            : r2 \in binary_search(node2.keys, key)}
              ELSE {1 + d : d \in remove_from_node_nesting(p, m, child_ptr, key)}
        : r \in binary_search(node.keys, key)}

remove_from_internal_node_nesting(p, m, node_ptr, key_idx) ==
    IF m.panic THEN {0}
    ELSE
    LET node == m.heap[node_ptr]
    IN  IF key_idx >= Len(node.keys) \/ key_idx + 1 >= Len(node.children)
        THEN {1}
        ELSE
        LET key == At(node.keys, key_idx)
            left_child == At(node.children, key_idx)
            right_child == At(node.children, key_idx + 1)
        IN  IF Len(m.heap[left_child].keys) > p.min_keys
            THEN LET predecessor == get_predecessor(m.heap, left_child)
                 IN  IF predecessor = None THEN {1}
                     ELSE LET m1 == [m EXCEPT !.heap[node_ptr].keys =
                                        SetAt(@, key_idx, unwrap(predecessor))]
                          IN  {1 + d : d \in remove_from_node_nesting(
                                   p, m1, left_child, unwrap(predecessor))}
            ELSE IF Len(m.heap[right_child].keys) > p.min_keys
            THEN LET successor == get_successor(m.heap, right_child)
                 IN  IF successor = None THEN {1}
                     ELSE LET m1 == [m EXCEPT !.heap[node_ptr].keys =
                                        SetAt(@, key_idx, unwrap(successor))]
                          IN  {1 + d : d \in remove_from_node_nesting(
                                   p, m1, right_child, unwrap(successor))}
            ELSE {1 + d : d \in remove_from_node_nesting(
                     p, merge_children(m, node_ptr, key_idx), left_child, key)}

\* BTree::remove calls remove_from_node on the root
remove_nesting(p, h, r, key) == remove_from_node_nesting(p, Mach(h), r, key)

\* BTree::insert: one frame of insert_non_full for every node it is entered
\* on
insert_nesting(p, h, r, key) ==
    {Len(m.entered) :
       m \in insert_non_full(p, insert_split_root(p, h, r), r, key)}

\* BTree::contains is a loop: the nodes it visits, no frame being nested
RECURSIVE contains_steps(_, _, _)
contains_steps(h, node_ptr, key) ==
    LET current == h[node_ptr]
        rs == binary_search(current.keys, key)
    IN  UNION {
          IF r.found \/ is_leaf(current) THEN {1}
          ELSE {1 + d : d \in contains_steps(h, At(current.children, r.idx), key)}
        : r \in rs}

\* a removal that decrements len whatever was returned
len_after_remove_always(p, res) == [p EXCEPT !.len = @ - 1]

\* the end of BTree::remove: len is decremented iff something was removed
len_after_remove(p, res) ==
    IF is_some(res) THEN [p EXCEPT !.len = @ - 1] ELSE p

\* a remove that never promotes the child of an emptied root
root_underflow_never(root_node) == FALSE

\* BTree::remove: the root is empty but has children
root_underflow(root_node) == root_node.keys = <<>> /\ root_node.children # <<>>

\* a remove that drops the emptied root with its child still attached
remove_dropping_child(p, h, r, key) ==
    { LET root_node == o.m.heap[r]
          collapse == ~o.m.panic /\ root_underflow(root_node)
          new_root == IF collapse THEN At(root_node.children, 0) ELSE r
          h1 == IF collapse
                THEN Node_drop([o.m.heap EXCEPT ![new_root].parent = None], r)
                ELSE o.m.heap
          underflow == ~o.m.panic /\ is_some(o.res) /\ p.len = 0
      IN  [heap |-> h1,
           root |-> new_root,
           panic |-> o.m.panic \/ underflow,
           res |-> o.res,
           props |-> IF o.m.panic \/ underflow THEN p
                     ELSE len_after_remove(p, o.res)]
    : o \in remove_from_node(p, Mach(h), r, key) }

\* BTree::remove: the possible results [heap, root, panic, res, props]
remove(p, h, r, key) ==
    { LET root_node == o.m.heap[r]
          collapse == ~o.m.panic /\ root_underflow(root_node)
          new_root == IF collapse THEN At(root_node.children, 0) ELSE r
          h1 == IF collapse
                THEN Node_drop([o.m.heap EXCEPT ![new_root].parent = None,
                                                ![r].children = <<>>], r)
                ELSE o.m.heap
          underflow == ~o.m.panic /\ is_some(o.res) /\ p.len = 0
      IN  [heap |-> h1,
           root |-> new_root,
           panic |-> o.m.panic \/ underflow,
           res |-> o.res,
           props |-> IF o.m.panic \/ underflow THEN p
                     ELSE len_after_remove(p, o.res)]
    : o \in remove_from_node(p, Mach(h), r, key) }

\* BTree::pop_first / BTree::pop_last: remove(first()) / remove(last()), the
\* ? operator returning None on an empty tree
pop_first(p, h, r) ==
    IF first(h, r) = None
    THEN {[heap |-> h, root |-> r, panic |-> FALSE, res |-> None, props |-> p]}
    ELSE remove(p, h, r, unwrap(first(h, r)))

pop_last(p, h, r) ==
    IF last_key(h, r) = None
    THEN {[heap |-> h, root |-> r, panic |-> FALSE, res |-> None, props |-> p]}
    ELSE remove(p, h, r, unwrap(last_key(h, r)))

\* -------------------------------------------------------------- BTreeIter
\* a stack frame is <<node address, key index>>; the top is the last element
RECURSIVE push_left_path(_, _, _, _)
push_left_path(h, stack, node_ptr, start_idx) ==
    LET pushed == Append(stack, <<node_ptr, start_idx>>)
    IN  IF is_leaf(h[node_ptr]) THEN pushed
        ELSE push_left_path(h, pushed, At(h[node_ptr].children, start_idx), start_idx)

\* an iterator that starts on the root frame alone
BTreeIter_new_root_frame(h, root_ptr) == <<<<root_ptr, 0>>>>

BTreeIter_new(h, root_ptr) == push_left_path(h, <<>>, root_ptr, 0)

\* a next() that pushes the left path of the right child first and the frame
\* of the node's next key above it
RECURSIVE next_frame_above_path(_, _)
next_frame_above_path(h, stack) ==
    IF stack = <<>> THEN [item |-> None, stack |-> stack]
    ELSE LET node_ptr == vec_last(stack)[1]
             idx == vec_last(stack)[2]
             node == h[node_ptr]
             popped == vec_pop(stack)
         IN  IF idx < Len(node.keys)
             THEN LET s1 == IF ~is_leaf(node) /\ idx + 1 < Len(node.children)
                            THEN push_left_path(h, popped, At(node.children, idx + 1), 0)
                            ELSE popped
                      s2 == IF idx + 1 < Len(node.keys)
                            THEN Append(s1, <<node_ptr, idx + 1>>)
                            ELSE s1
                  IN  [item |-> Some(At(node.keys, idx)), stack |-> s2]
             ELSE next_frame_above_path(h, popped)

\* BTreeIter::next: [item, stack]
RECURSIVE next(_, _)
next(h, stack) ==
    IF stack = <<>> THEN [item |-> None, stack |-> stack]
    ELSE LET node_ptr == vec_last(stack)[1]
             idx == vec_last(stack)[2]
             node == h[node_ptr]
             popped == vec_pop(stack)
         IN  IF idx < Len(node.keys)
             THEN LET s1 == IF idx + 1 < Len(node.keys)
                            THEN Append(popped, <<node_ptr, idx + 1>>)
                            ELSE popped
                      s2 == IF ~is_leaf(node) /\ idx + 1 < Len(node.children)
                            THEN push_left_path(h, s1, At(node.children, idx + 1), 0)
                            ELSE s1
                  IN  [item |-> Some(At(node.keys, idx)), stack |-> s2]
             ELSE next(h, popped)

\* the sequence a BTreeIter yields until next returns None
RECURSIVE collect(_, _)
collect(h, stack) ==
    LET n == next(h, stack)
    IN  IF n.item = None THEN <<>>
        ELSE <<unwrap(n.item)>> \o collect(h, n.stack)

iter(h, r) == collect(h, BTreeIter_new(h, r))

\* the iterator it = [stack, items] after n more calls of next, items being
\* what it has yielded
RECURSIVE advance(_, _, _)
advance(h, it, n) ==
    IF n = 0 THEN it
    ELSE LET nx == next(h, it.stack)
         IN  advance(h, [stack |-> nx.stack, items |-> it.items \o nx.item], n - 1)

\* the iterator of tree.iter() between its n-th and its (n+1)-th call of next
BTreeIter_after(h, r, n) ==
    advance(h, [stack |-> BTreeIter_new(h, r), items |-> <<>>], n)

\* Iterator::skip_while(|k| k < start)
RECURSIVE skip_while(_, _)
skip_while(s, start) ==
    IF s # <<>> /\ ord(Head(s)) < ord(start) THEN skip_while(Tail(s), start) ELSE s

\* Iterator::take_while(|k| k <= end)
RECURSIVE take_while(_, _)
take_while(s, end) ==
    IF s # <<>> /\ ord(Head(s)) <= ord(end)
    THEN <<Head(s)>> \o take_while(Tail(s), end)
    ELSE <<>>

\* a range that leaves the upper bound out
range_end_exclusive(h, r, start, end) ==
    take_while(skip_while(iter(h, r), start), end - 1)

\* the filter of a range that leaves the upper bound out
range_over_end_exclusive(s, start, end) ==
    take_while(skip_while(s, start), end - 1)

\* the filter of BTree::range on the items s of self.iter()
range_over(s, start, end) == take_while(skip_while(s, start), end)

\* BTree::range
range(h, r, start, end) == range_over(iter(h, r), start, end)

\* ------------------------------------------- the single file src/btree.rs
\* src/btree.rs holds an implementation of its own.  Its BTree::new,
\* split_child, is_full, find_insertion_index and insert_non_full are the text
\* of src/btree/mod.rs; its insert leaves the parent of the old root unset, and
\* its BTreeIter::next pushes in another order.
btree_rs_insert_split_root(p, h, r) ==
    IF is_full(p, h, r)
    THEN LET old_root == h[r]
             h1 == [h EXCEPT ![r] = Node_new(None)]
             old_root_ptr == fresh(h1)
             h2 == store_on_heap(h1, old_root)
             h3 == [h2 EXCEPT ![r].children = Append(@, old_root_ptr)]
         IN  split_child(p, Mach(h3), r, 0)
    ELSE Mach(h)

\* src/btree.rs BTree::insert: the possible results [heap, panic, props]
btree_rs_insert(p, h, r, key) ==
    { [heap |-> m.heap,
       panic |-> m.panic,
       props |-> IF m.panic THEN p ELSE [p EXCEPT !.len = @ + 1]]
      : m \in insert_non_full(p, btree_rs_insert_split_root(p, h, r), r, key) }

\* src/btree.rs BTreeIter::next: [item, stack]; the left path of
\* children[idx+1] is pushed first, the frame (node, idx+1) after it
RECURSIVE btree_rs_next(_, _)
btree_rs_next(h, stack) ==
    IF stack = <<>> THEN [item |-> None, stack |-> stack]
    ELSE LET node_ptr == vec_last(stack)[1]
             idx == vec_last(stack)[2]
             node == h[node_ptr]
             popped == vec_pop(stack)
         IN  IF idx < Len(node.keys)
             THEN LET s1 == IF ~is_leaf(node) /\ idx + 1 < Len(node.children)
                            THEN push_left_path(h, popped, At(node.children, idx + 1), 0)
                            ELSE popped
                      s2 == IF idx + 1 < Len(node.keys)
                            THEN Append(s1, <<node_ptr, idx + 1>>)
                            ELSE s1
                  IN  [item |-> Some(At(node.keys, idx)), stack |-> s2]
             ELSE btree_rs_next(h, popped)

\* what a for loop over the iterator of src/btree.rs sees
RECURSIVE btree_rs_collect(_, _)
btree_rs_collect(h, stack) ==
    LET n == btree_rs_next(h, stack)
    IN  IF n.item = None THEN <<>>
        ELSE <<unwrap(n.item)>> \o btree_rs_collect(h, n.stack)

\* src/btree.rs BTree::iter, run to its end
btree_rs_iter(h, r) == btree_rs_collect(h, push_left_path(h, <<>>, r, 0))

\* --------------------------------------------------------------- BTreeSet
\* BTreeSet<T> is BTree<T> under another name: the same fields root and props
\* (BTreeMap reads them) and the same operations
BTreeSet_new(h, branch_factor) == BTree_new(h, branch_factor)
BTreeSet_contains(h, r, key) == contains(h, r, key)
BTreeSet_insert(p, h, r, key) == insert(p, h, r, key)
BTreeSet_remove(p, h, r, key) == remove(p, h, r, key)

\* --------------------------------------------------------------- BTreeMap
BTreeMap_new(h, branch_factor) == BTreeSet_new(h, branch_factor)

\* keys.binary_search_by(|k| k.key.cmp(key)): Ok(i) for any i whose pair has
\* the key, else Err(i) with i the number of pairs of a smaller key
binary_search_by_key(keys, key) ==
    LET matches == {i \in 1..Len(keys) : pair_key(keys[i]) = key}
    IN  IF matches # {}
        THEN {[found |-> TRUE, idx |-> i - 1] : i \in matches}
        ELSE {[found |-> FALSE,
               idx |-> Cardinality({i \in 1..Len(keys) : pair_key(keys[i]) < key})]}

\* an insert that puts the new pair in without taking the old one out
BTreeMap_insert_keeps_old(p, h, r, key, value) ==
    { [heap |-> m.heap, root |-> r, panic |-> m.panic, props |-> m.props,
       res |-> None]
      : m \in BTreeSet_insert(p, h, r, MapPair(key, value)) }

\* BTreeMap::insert: the possible results [heap, root, panic, res, props]
BTreeMap_insert(p, h, r, key, value) ==
    LET pair == MapPair(key, value)
        removed == IF BTreeSet_contains(h, r, pair)
                   THEN BTreeSet_remove(p, h, r, pair)
                   ELSE {[heap |-> h, root |-> r, panic |-> FALSE,
                          res |-> None, props |-> p]}
    IN  UNION {
          IF o.panic THEN {[o EXCEPT !.res = None]}
          ELSE { [heap |-> m.heap,
                  root |-> o.root,
                  panic |-> m.panic,
                  props |-> m.props,
                  res |-> IF is_some(o.res)
                          THEN Some(pair_value(unwrap(o.res)))
                          ELSE None]
                 : m \in BTreeSet_insert(o.props, o.heap, o.root, pair) }
        : o \in removed}

\* BTreeMap::get: the values it may return
RECURSIVE get_from(_, _, _)
get_from(h, node_ptr, key) ==
    LET current == h[node_ptr]
    IN  UNION {
          IF res.found THEN {Some(pair_value(At(current.keys, res.idx)))}
          ELSE IF is_leaf(current) THEN {None}
          ELSE get_from(h, At(current.children, res.idx), key)
        : res \in binary_search_by_key(current.keys, key)}

\* a get that gives up below the root node
BTreeMap_get_root_only(h, r, key) ==
    { IF res.found THEN Some(pair_value(At(h[r].keys, res.idx))) ELSE None
      : res \in binary_search_by_key(h[r].keys, key) }

BTreeMap_get(h, r, key) == get_from(h, r, key)

\* BTreeMap::contains_key: the answers it may give
RECURSIVE contains_key_from(_, _, _)
contains_key_from(h, node_ptr, key) ==
    LET current == h[node_ptr]
    IN  UNION {
          IF res.found THEN {TRUE}
          ELSE IF is_leaf(current) THEN {FALSE}
          ELSE contains_key_from(h, At(current.children, res.idx), key)
        : res \in binary_search_by_key(current.keys, key)}

BTreeMap_contains_key(h, r, key) == contains_key_from(h, r, key)

\* a remove that hands back the value of the probe instead of the stored one
BTreeMap_remove_probe_value(p, h, r, key) ==
    { [o EXCEPT !.res = IF is_some(@) THEN Some(0) ELSE None]
      : o \in remove(p, h, r, MapPair(key, 0)) }

\* BTreeMap's private removal helpers.  Those that compare nothing
\* (ensure_child_has_enough_keys, the two borrows, merge_children,
\* get_predecessor, get_successor) are the text of BTree's on nodes of pairs;
\* remove_from_node and remove_from_internal_node take a key, not a pair.
RECURSIVE BTreeMap_remove_from_node(_, _, _, _)
RECURSIVE BTreeMap_remove_from_internal_node(_, _, _, _)

\* the Ok arm of BTreeMap::remove_from_node, also taken after a rebalancing
BTreeMap_remove_found(p, m, node_ptr, idx) ==
    LET node == m.heap[node_ptr]
    IN  IF is_leaf(node)
        THEN {Out([m EXCEPT !.heap[node_ptr].keys = vec_remove(node.keys, idx)],
                  Some(At(node.keys, idx)))}
        ELSE BTreeMap_remove_from_internal_node(p, m, node_ptr, idx)

BTreeMap_remove_from_node(p, m, node_ptr, key) ==
    IF m.panic THEN {Out(m, None)}
    ELSE
    LET node == m.heap[node_ptr]
    IN  UNION {
          IF r.found
          THEN BTreeMap_remove_found(p, m, node_ptr, r.idx)
          ELSE IF is_leaf(node)
          THEN {Out(m, None)}
          ELSE IF r.idx >= Len(node.children)
          THEN {Out(Abort(m), None)}
          ELSE
          LET child_ptr == At(node.children, r.idx)
          IN  IF Len(m.heap[child_ptr].keys) <= p.min_keys
              THEN LET m2 == ensure_child_has_enough_keys(p, m, node_ptr, r.idx)
                       node2 == m2.heap[node_ptr]
                   IN  IF m2.panic THEN {Out(m2, None)}
                       ELSE UNION {
                              IF r2.found
                              THEN BTreeMap_remove_found(p, m2, node_ptr, r2.idx)
                              ELSE IF r2.idx >= Len(node2.children)
                              THEN {Out(Abort(m2), None)}
                              ELSE BTreeMap_remove_from_node(
                                       p, m2, At(node2.children, r2.idx), key)
                            : r2 \in binary_search_by_key(node2.keys, key)}
              ELSE BTreeMap_remove_from_node(p, m, child_ptr, key)
        : r \in binary_search_by_key(node.keys, key)}

\* a removal from an internal node that never takes a successor: it merges
\* the two children whenever the left one has no key to spare
BTreeMap_remove_never_successor(p, m, node_ptr, key_idx) ==
    IF m.panic THEN {Out(m, None)}
    ELSE
    LET node == m.heap[node_ptr]
    IN  IF key_idx >= Len(node.keys) \/ key_idx + 1 >= Len(node.children)
        THEN {Out(Abort(m), None)}
        ELSE
        LET key == At(node.keys, key_idx)
            left_child == At(node.children, key_idx)
        IN  IF Len(m.heap[left_child].keys) > p.min_keys
            THEN LET predecessor == get_predecessor(m.heap, left_child)
                 IN  IF predecessor = None THEN {Out(Abort(m), None)}
                     ELSE LET m1 == [m EXCEPT !.heap[node_ptr].keys =
                                        SetAt(@, key_idx, unwrap(predecessor))]
                          IN  {Out(o.m, Some(key)) :
                                 o \in BTreeMap_remove_from_node(
                                           p, m1, left_child,
                                           pair_key(unwrap(predecessor)))}
            ELSE BTreeMap_remove_from_node(p, merge_children(m, node_ptr, key_idx),
                                           left_child, pair_key(key))

BTreeMap_remove_from_internal_node(p, m, node_ptr, key_idx) ==
    IF m.panic THEN {Out(m, None)}
    ELSE
    LET node == m.heap[node_ptr]
    IN  IF key_idx >= Len(node.keys) \/ key_idx + 1 >= Len(node.children)
        THEN {Out(Abort(m), None)}
        ELSE
        LET key == At(node.keys, key_idx)
            left_child == At(node.children, key_idx)
            right_child == At(node.children, key_idx + 1)
        IN  IF Len(m.heap[left_child].keys) > p.min_keys
            THEN LET predecessor == get_predecessor(m.heap, left_child)
                 IN  IF predecessor = None THEN {Out(Abort(m), None)}
                     ELSE LET m1 == [m EXCEPT !.heap[node_ptr].keys =
                                        SetAt(@, key_idx, unwrap(predecessor))]
                          IN  {Out(o.m, Some(key)) :
                                 o \in BTreeMap_remove_from_node(
                                           p, m1, left_child,
                                           pair_key(unwrap(predecessor)))}
            ELSE IF Len(m.heap[right_child].keys) > p.min_keys
            THEN LET successor == get_successor(m.heap, right_child)
                 IN  IF successor = None THEN {Out(Abort(m), None)}
                     ELSE LET m1 == [m EXCEPT !.heap[node_ptr].keys =
                                        SetAt(@, key_idx, unwrap(successor))]
                          IN  {Out(o.m, Some(key)) :
                                 o \in BTreeMap_remove_from_node(
                                           p, m1, right_child,
                                           pair_key(unwrap(successor)))}
            ELSE BTreeMap_remove_from_node(p, merge_children(m, node_ptr, key_idx),
                                           left_child, pair_key(key))

\* BTreeMap::remove: the possible results [heap, root, panic, res, props], res
\* being the value of the removed pair
BTreeMap_remove(p, h, r, key) ==
    { LET root_node == o.m.heap[r]
          collapse == ~o.m.panic /\ root_node.keys = <<>> /\ root_node.children # <<>>
          new_root == IF collapse THEN At(root_node.children, 0) ELSE r
          h1 == IF collapse
                THEN Node_drop([o.m.heap EXCEPT ![new_root].parent = None,
                                                ![r].children = <<>>], r)
                ELSE o.m.heap
          underflow == ~o.m.panic /\ is_some(o.res) /\ p.len = 0
      IN  [heap |-> h1,
           root |-> new_root,
           panic |-> o.m.panic \/ underflow,
           res |-> IF is_some(o.res) THEN Some(pair_value(unwrap(o.res))) ELSE None,
           props |-> IF o.m.panic \/ underflow THEN p
                     ELSE IF is_some(o.res) THEN [p EXCEPT !.len = @ - 1] ELSE p]
    : o \in BTreeMap_remove_from_node(p, Mach(h), r, key) }

\* ------------------------------------------------------------- addresses
\* The allocator may return any unused address and the program never compares
\* or orders addresses, so two heaps that differ by a renaming of addresses are
\* the same program state.  Each operation ends on the representative in which
\* the nodes reachable from the root are numbered 1, 2, ... in preorder.  A
\* parent back-reference to an address that is not reachable any more (the
\* node was freed) is kept as the address 0, which is never allocated.
RECURSIVE preorder(_, _)
RECURSIVE preorder_children(_, _, _)
preorder_children(h, children, i) ==
    IF i > Len(children) THEN <<>>
    ELSE preorder(h, children[i]) \o preorder_children(h, children, i + 1)

preorder(h, node_ptr) == <<node_ptr>> \o preorder_children(h, h[node_ptr].children, 1)

relocate(h, r) ==
    LET order == preorder(h, r)
        new_addr(a) == IF \E i \in 1..Len(order) : order[i] = a
                       THEN CHOOSE i \in 1..Len(order) : order[i] = a
                       ELSE 0
    IN  [i \in 1..Len(order) |->
            LET node == h[order[i]]
            IN  Node(node.keys,
                     [j \in 1..Len(node.children) |-> new_addr(node.children[j])],
                     IF node.parent = None THEN None
                     ELSE Some(new_addr(unwrap(node.parent))))]

\* --------------------------------------------- what the claims talk about
\* the nodes reachable from node_ptr through children vectors
RECURSIVE subtree(_, _)
subtree(h, node_ptr) ==
    {node_ptr} \cup
    UNION {subtree(h, h[node_ptr].children[i]) : i \in 1..Len(h[node_ptr].children)}

\* the keys stored in the subtree of node_ptr, as a set
subtree_keys(h, node_ptr) ==
    UNION {{h[a].keys[i] : i \in 1..Len(h[a].keys)} : a \in subtree(h, node_ptr)}

RECURSIVE sum_keys(_, _)
sum_keys(h, ptrs) ==
    IF ptrs = {} THEN 0
    ELSE LET a == CHOOSE x \in ptrs : TRUE
         IN  Len(h[a].keys) + sum_keys(h, ptrs \ {a})

\* the number of keys stored in the nodes reachable from the root
stored_keys(h, r) == sum_keys(h, subtree(h, r))

non_decreasing(s) == \A i \in 1..(Len(s) - 1) : s[i] <= s[i + 1]

count(s, k) == Cardinality({i \in 1..Len(s) : s[i] = k})

\* the number of stored keys equal to k
RECURSIVE sum_count(_, _, _)
sum_count(h, ptrs, k) ==
    IF ptrs = {} THEN 0
    ELSE LET a == CHOOSE x \in ptrs : TRUE
         IN  count(h[a].keys, k) + sum_count(h, ptrs \ {a}, k)

occurrences(h, r, k) == sum_count(h, subtree(h, r), k)

\* ------------------------------------------------------------ the machine
\* a call and what it returned
Did(name, res) == [name |-> name, res |-> res]

\* no reader at work: a BTree of integers with no call made, no iterator
NoReader ==
    /\ kind = "tree"
    /\ last_op = Did("new", None)
    /\ iter_stack = <<>>
    /\ iter_items = <<>>

\* no counter shared: no SyncBox allocated, no thread spawned
NoCounter ==
    /\ inner = [value |-> 0, refs |-> 0]
    /\ threads = <<>>

\* one handle of the tree alone: no clone made, nothing dropped
NoClone ==
    twin = [made |-> FALSE, root |-> 0, props |-> BTreeProperties_new(0),
            bag |-> [k \in Keys |-> 0], dropped |-> {}, stale |-> {},
            double_free |-> FALSE]

\* no list: IntrusiveList::new and no item
NoList ==
    list = [head |-> None, tail |-> None, len |-> 0, links |-> <<>>,
            debug |-> FALSE]

Init ==
    /\ \E branch_factor \in BranchFactors :
          LET t == BTree_new(<<>>, branch_factor)
          IN  /\ root = t.root
              /\ heap = t.heap
              /\ props = t.props
              /\ panicked = t.panic
    /\ net_calls = 0
    /\ pc = 0
    /\ calls = <<>>
    /\ assoc = [k \in MapKeys |-> None]
    /\ NoReader
    /\ NoCounter
    /\ NoClone
    /\ NoList
    /\ bag = [k \in Keys |-> 0]

Insert ==
    /\ ~panicked
    /\ net_calls < MaxLen
    /\ \E key \in Keys :
       \E m \in insert(props, heap, root, key) :
          /\ heap' = IF m.panic THEN m.heap ELSE relocate(m.heap, root)
          /\ panicked' = m.panic
          /\ props' = m.props
          /\ net_calls' = net_calls + 1
          /\ bag' = [bag EXCEPT ![key] = @ + 1]
    /\ UNCHANGED <<root, pc, calls, assoc, reader_vars, counter_vars, clone_vars, list_vars>>

\* a remove or pop call that took the outcome o
Removed(o) ==
    /\ heap' = IF o.panic THEN o.heap ELSE relocate(o.heap, o.root)
    /\ root' = IF o.panic THEN o.root ELSE 1
    /\ panicked' = o.panic
    /\ props' = o.props
    /\ net_calls' = IF is_some(o.res) THEN net_calls - 1 ELSE net_calls
    /\ bag' = IF is_some(o.res)
              THEN [bag EXCEPT ![unwrap(o.res)] = @ - 1]
              ELSE bag
    /\ UNCHANGED <<pc, calls, assoc, reader_vars, counter_vars, clone_vars, list_vars>>

Remove ==
    /\ ~panicked
    /\ \E key \in Keys :
       \E o \in remove(props, heap, root, key) : Removed(o)

PopFirst ==
    /\ ~panicked
    /\ \E o \in pop_first(props, heap, root) : Removed(o)

PopLast ==
    /\ ~panicked
    /\ \E o \in pop_last(props, heap, root) : Removed(o)

\* clear(): the counts of calls start again with the new tree
Clear ==
    /\ ~panicked
    /\ 4 * props.degree <= MaxDegree
    /\ LET t == clear(props, heap, root)
       IN  /\ heap' = IF t.panic THEN t.heap ELSE relocate(t.heap, t.root)
           /\ root' = IF t.panic THEN root ELSE 1
           /\ props' = t.props
           /\ panicked' = t.panic
    /\ net_calls' = 0
    /\ bag' = [k \in Keys |-> 0]
    /\ UNCHANGED <<pc, calls, assoc, reader_vars, counter_vars, clone_vars, list_vars>>

Next == Insert \/ Remove \/ PopFirst \/ PopLast \/ Clear

Spec == Init /\ [][Next]_vars

\* A tree that BTree::new has returned: branch_factor >= 2, so the assert of
\* BTreeProperties::new held; the calls are those of Spec
InitBuilt == Init /\ props.degree >= 4

SpecBuilt == InitBuilt /\ [][Next]_vars

\* The same tree filled by the inserts 1, 2, 3, ... in ascending order alone
\* (the reference multiset bag is not kept here)
InitAscending ==
    /\ \E branch_factor \in 2..MaxBranchFactor :
          LET t == BTree_new(<<>>, branch_factor)
          IN  /\ root = t.root
              /\ heap = t.heap
              /\ props = t.props
              /\ panicked = t.panic
    /\ net_calls = 0
    /\ pc = 0
    /\ calls = <<>>
    /\ assoc = [k \in MapKeys |-> None]
    /\ NoReader
    /\ NoCounter
    /\ NoClone
    /\ NoList
    /\ bag = [k \in Keys |-> 0]

InsertAscending ==
    /\ ~panicked
    /\ net_calls < MaxAscending
    /\ \E m \in insert(props, heap, root, net_calls + 1) :
          /\ heap' = IF m.panic THEN m.heap ELSE relocate(m.heap, root)
          /\ panicked' = m.panic
          /\ props' = m.props
    /\ net_calls' = net_calls + 1
    /\ UNCHANGED <<root, bag, pc, calls, assoc, reader_vars, counter_vars, clone_vars, list_vars>>

NextAscending == InsertAscending

SpecAscending == InitAscending /\ [][NextAscending]_vars

\* A tree of src/btree.rs built by inserts alone: the keys 1..MaxFileKey, each
\* at most once, in any order
FileKeys == 1..MaxFileKey

InitSingleFile ==
    /\ \E branch_factor \in 2..MaxBranchFactor :
          LET t == BTree_new(<<>>, branch_factor)
          IN  /\ root = t.root
              /\ heap = t.heap
              /\ props = t.props
              /\ panicked = t.panic
    /\ net_calls = 0
    /\ pc = 0
    /\ calls = <<>>
    /\ assoc = [k \in MapKeys |-> None]
    /\ NoReader
    /\ NoCounter
    /\ NoClone
    /\ NoList
    /\ bag = [k \in Keys |-> 0]

FileInsert ==
    /\ ~panicked
    /\ \E key \in FileKeys :
          /\ \A a \in subtree(heap, root) :
                \A i \in 1..Len(heap[a].keys) : heap[a].keys[i] # key
          /\ \E m \in btree_rs_insert(props, heap, root, key) :
                /\ heap' = IF m.panic THEN m.heap ELSE relocate(m.heap, root)
                /\ panicked' = m.panic
                /\ props' = m.props
    /\ net_calls' = net_calls + 1
    /\ UNCHANGED <<root, bag, pc, calls, assoc, reader_vars, counter_vars, clone_vars, list_vars>>

NextSingleFile == FileInsert

SpecSingleFile == InitSingleFile /\ [][NextSingleFile]_vars

\* A BTree::new(2) and its clone().  #[derive(Clone)] on BTree clones the
\* fields: root is a NonNull pointer, so the clone's root is the same address
\* and the two handles share every node; props is copied.  bag and twin.bag
\* are what each handle would hold if it were a tree of its own.  A handle
\* whose root has been freed through the other handle is stale; what the
\* program does through a stale handle is undefined.
InitClone ==
    /\ LET t == BTree_new(<<>>, 2)
       IN  /\ root = t.root
           /\ heap = t.heap
           /\ props = t.props
           /\ panicked = t.panic
    /\ net_calls = 0
    /\ bag = [k \in Keys |-> 0]
    /\ pc = 0
    /\ calls = <<>>
    /\ assoc = [k \in MapKeys |-> None]
    /\ NoReader
    /\ NoCounter
    /\ NoClone
    /\ NoList

TreeLive == "tree" \notin twin.dropped
CloneLive == twin.made /\ "clone" \notin twin.dropped
TreeStale == "tree" \in twin.stale
CloneStale == "clone" \in twin.stale

\* the handles left with a freed root once the heap is h
stale_on(h) ==
    twin.stale \cup {x \in {"tree"} : TreeLive /\ root \notin DOMAIN h}
               \cup {x \in {"clone"} : CloneLive /\ twin.root \notin DOMAIN h}

OnlyHandles ==
    UNCHANGED <<pc, calls, assoc, reader_vars, counter_vars, list_vars>>

\* what a handle of its own would hold after remove(key)
bag_after_remove(b, key) == IF b[key] > 0 THEN [b EXCEPT ![key] = @ - 1] ELSE b

TreeInsert ==
    /\ ~panicked /\ TreeLive /\ ~TreeStale
    /\ net_calls < MaxCloneCalls
    /\ \E key \in Keys :
       \E m \in insert(props, heap, root, key) :
          /\ heap' = m.heap
          /\ panicked' = m.panic
          /\ props' = m.props
          /\ bag' = [bag EXCEPT ![key] = @ + 1]
    /\ net_calls' = net_calls + 1
    /\ UNCHANGED <<root, twin>>
    /\ OnlyHandles

TreeRemove ==
    /\ ~panicked /\ TreeLive /\ ~TreeStale
    /\ net_calls < MaxCloneCalls
    /\ \E key \in Keys :
       \E o \in remove(props, heap, root, key) :
          /\ heap' = o.heap
          /\ root' = o.root
          /\ panicked' = o.panic
          /\ props' = o.props
          /\ bag' = bag_after_remove(bag, key)
          /\ twin' = [twin EXCEPT !.stale = stale_on(o.heap)]
    /\ net_calls' = net_calls + 1
    /\ OnlyHandles

\* #[derive(Clone)] for BTree: root: self.root.clone(), props: self.props.clone()
CloneTree ==
    /\ ~panicked /\ TreeLive /\ ~TreeStale
    /\ ~twin.made
    /\ twin' = [twin EXCEPT !.made = TRUE, !.root = root, !.props = props,
                             !.bag = bag]
    /\ UNCHANGED <<root, heap, props, panicked, net_calls, bag>>
    /\ OnlyHandles

CloneInsert ==
    /\ ~panicked /\ CloneLive /\ ~CloneStale
    /\ net_calls < MaxCloneCalls
    /\ \E key \in Keys :
       \E m \in insert(twin.props, heap, twin.root, key) :
          /\ heap' = m.heap
          /\ panicked' = m.panic
          /\ twin' = [twin EXCEPT !.props = m.props, !.bag[key] = @ + 1]
    /\ net_calls' = net_calls + 1
    /\ UNCHANGED <<root, props, bag>>
    /\ OnlyHandles

CloneRemove ==
    /\ ~panicked /\ CloneLive /\ ~CloneStale
    /\ net_calls < MaxCloneCalls
    /\ \E key \in Keys :
       \E o \in remove(twin.props, heap, twin.root, key) :
          /\ heap' = o.heap
          /\ panicked' = o.panic
          /\ twin' = [twin EXCEPT !.root = o.root, !.props = o.props,
                                   !.bag = bag_after_remove(@, key),
                                   !.stale = stale_on(o.heap)]
    /\ net_calls' = net_calls + 1
    /\ UNCHANGED <<root, props, bag>>
    /\ OnlyHandles

\* Drop for BTree: Node::drop(self.root).  Through a stale handle the root is
\* freed a second time: the allocator aborts or does not notice.
DropTree ==
    /\ ~panicked /\ TreeLive
    /\ IF TreeStale
       THEN /\ twin' = [twin EXCEPT !.dropped = @ \cup {"tree"},
                                    !.double_free = TRUE]
            /\ panicked' \in BOOLEAN
            /\ heap' = heap
       ELSE /\ twin' = [twin EXCEPT !.dropped = @ \cup {"tree"},
                                    !.stale = stale_on(Node_drop(heap, root))]
            /\ panicked' = panicked
            /\ heap' = Node_drop(heap, root)
    /\ UNCHANGED <<root, props, net_calls, bag>>
    /\ OnlyHandles

DropClone ==
    /\ ~panicked /\ CloneLive
    /\ IF CloneStale
       THEN /\ twin' = [twin EXCEPT !.dropped = @ \cup {"clone"},
                                    !.double_free = TRUE]
            /\ panicked' \in BOOLEAN
            /\ heap' = heap
       ELSE /\ twin' = [twin EXCEPT !.dropped = @ \cup {"clone"},
                                    !.stale = stale_on(Node_drop(heap, twin.root))]
            /\ panicked' = panicked
            /\ heap' = Node_drop(heap, twin.root)
    /\ UNCHANGED <<root, props, net_calls, bag>>
    /\ OnlyHandles

\* insert, remove or a read through a stale handle dereferences a freed root:
\* the program aborts, or goes on with what it finds there, which this
\* specification does not follow further
UseAfterFree ==
    /\ ~panicked
    /\ (TreeLive /\ TreeStale) \/ (CloneLive /\ CloneStale)
    /\ net_calls < MaxCloneCalls
    /\ panicked' \in BOOLEAN
    /\ net_calls' = net_calls + 1
    /\ UNCHANGED <<root, heap, props, bag, twin>>
    /\ OnlyHandles

NextClone ==
    \/ TreeInsert \/ TreeRemove \/ CloneTree \/ CloneInsert \/ CloneRemove
    \/ DropTree \/ DropClone \/ UseAfterFree

SpecClone == InitClone /\ [][NextClone]_vars

\* ------------------------------------------------------- IntrusiveList
\* src/intrusive_linked_list: a list of items that hold their own ListLink.
\* An item is its address; links[item] is its ListLink [next, prev].  The
\* build profile decides whether the debug_assert!s are compiled in.
Items == 1..MaxItems

ListLink_new == [next |-> None, prev |-> None]

\* ListLink::is_linked
is_linked(node) == is_some(node.next) \/ is_some(node.prev)

\* IntrusiveList::new
IntrusiveList_new(debug) ==
    [head |-> None, tail |-> None, len |-> 0,
     links |-> [item \in Items |-> ListLink_new], debug |-> debug]

\* an outcome of a list call: the list, the returned Option and whether the
\* call panicked
ListOut(l, res, panic) == [list |-> l, res |-> res, panic |-> panic]

\* IntrusiveList::link_as_only_node
link_as_only_node(l, p_node) ==
    ListOut([l EXCEPT !.head = Some(p_node), !.tail = Some(p_node)], None,
            l.debug /\ ~(l.head = None /\ l.tail = None))

\* IntrusiveList::push_back
push_back(l, item) ==
    LET o == IF l.tail = None
             THEN link_as_only_node(l, item)
             ELSE LET p_old_tail == unwrap(l.tail)
                  IN  ListOut([l EXCEPT !.links[p_old_tail].next = Some(item),
                                        !.links[item].prev = Some(p_old_tail),
                                        !.tail = Some(item)], None, FALSE)
    IN  IF o.panic THEN o
        ELSE ListOut([o.list EXCEPT !.len = @ + 1], None, FALSE)

\* IntrusiveList::push_front
push_front(l, item) ==
    LET o == IF l.head = None
             THEN link_as_only_node(l, item)
             ELSE LET p_old_head == unwrap(l.head)
                  IN  ListOut([l EXCEPT !.links[item].next = Some(p_old_head),
                                        !.links[p_old_head].prev = Some(item),
                                        !.head = Some(item)], None, FALSE)
    IN  IF o.panic THEN o
        ELSE ListOut([o.list EXCEPT !.len = @ + 1], None, FALSE)

\* the guard of IntrusiveList::remove: deref_node(head) == node compares the
\* two ListLink values (derived PartialEq: next and prev), not the addresses
is_foreign(l, item) ==
    LET node == l.links[item]
    IN  /\ ~is_linked(node)
        /\ ~(is_some(l.head) /\ l.links[unwrap(l.head)] = node)

\* IntrusiveList::remove.  len is a usize: in a build without
\* debug_assert!s and overflow checks 0 - 1 wraps; len is written by the
\* representative of its residue modulo 2^64 that is nearest to 0, so -1
\* stands for usize::MAX
IntrusiveList_remove(l, item) ==
    IF is_foreign(l, item) THEN ListOut(l, None, FALSE)
    ELSE
    LET node == l.links[item]
        l1 == IF is_some(node.prev)
              THEN [l EXCEPT !.links[unwrap(node.prev)].next = node.next]
              ELSE IF l.head = Some(item)
              THEN [l EXCEPT !.head = node.next]
              ELSE l
        l2 == IF is_some(node.next)
              THEN [l1 EXCEPT !.links[unwrap(node.next)].prev = node.prev]
              ELSE IF l1.tail = Some(item)
              THEN [l1 EXCEPT !.tail = node.prev]
              ELSE l1
        l3 == [l2 EXCEPT !.links[item] = ListLink_new]
    IN  IF l.debug /\ ~(l3.len > 0 /\ is_some(l3.head) /\ is_some(l3.tail))
        THEN ListOut(l3, None, TRUE)
        ELSE ListOut([l3 EXCEPT !.len = @ - 1], Some(item), FALSE)

\* IntrusiveList::pop_front
IntrusiveList_pop_front(l) ==
    IF l.len = 0 THEN ListOut(l, None, FALSE)
    ELSE IF l.head = None THEN ListOut(l, None, TRUE)
    ELSE IntrusiveList_remove(l, unwrap(l.head))

\* IntrusiveList::pop_back
IntrusiveList_pop_back(l) ==
    IF l.len = 0 THEN ListOut(l, None, FALSE)
    ELSE IF l.tail = None THEN ListOut(l, None, TRUE)
    ELSE IntrusiveList_remove(l, unwrap(l.tail))

\* the items met from the head by next, n links at most
RECURSIVE chain(_, _, _)
chain(l, p, n) ==
    IF p = None \/ n = 0 THEN {}
    ELSE {unwrap(p)} \cup chain(l, l.links[unwrap(p)].next, n - 1)

\* the items whose link is part of the list
Linked(l) ==
    chain(l, l.head, MaxItems) \cup {i \in Items : is_linked(l.links[i])}
        \cup {unwrap(x) : x \in {l.head, l.tail} \ {None}}

\* A program that owns MaxItems items and one list, in a debug or in a release
\* build.  It pushes items that are in no list and removes any item,
\* MaxListCalls calls in all.
InitList ==
    /\ \E debug \in BOOLEAN : list = IntrusiveList_new(debug)
    /\ root = 0
    /\ heap = <<>>
    /\ props = BTreeProperties_new(0)
    /\ panicked = FALSE
    /\ net_calls = 0
    /\ bag = [k \in Keys |-> 0]
    /\ pc = 0
    /\ calls = <<>>
    /\ assoc = [k \in MapKeys |-> None]
    /\ NoReader
    /\ NoCounter
    /\ NoClone

OnlyList ==
    UNCHANGED <<root, heap, props, bag, pc, calls, assoc,
                reader_vars, counter_vars, clone_vars>>

\* one call of the program, of MaxListCalls at most; net_calls counts them
ListCall(o) ==
    /\ net_calls < MaxListCalls
    /\ net_calls' = net_calls + 1
    /\ list' = o.list
    /\ panicked' = o.panic
    /\ OnlyList

PushBack ==
    /\ ~panicked
    /\ \E item \in Items \ Linked(list) : ListCall(push_back(list, item))

PushFront ==
    /\ ~panicked
    /\ \E item \in Items \ Linked(list) : ListCall(push_front(list, item))

ListRemove ==
    /\ ~panicked
    /\ \E item \in Items : ListCall(IntrusiveList_remove(list, item))

PopFront ==
    /\ ~panicked
    /\ ListCall(IntrusiveList_pop_front(list))

PopBack ==
    /\ ~panicked
    /\ ListCall(IntrusiveList_pop_back(list))

NextList == PushBack \/ PushFront \/ ListRemove \/ PopFront \/ PopBack

SpecList == InitList /\ [][NextList]_vars

\* Scenario A (test_btree_simple_remove): the calls of the test, in order.
\* The specification goes through the script and makes or leaves out each
\* call; the test is the behaviour that makes them all.
Call(op, key) == [op |-> op, key |-> key]

ScenarioA ==
    <<Call("insert", 1337), Call("insert", 1), Call("insert", 2),
      Call("insert", 3), Call("insert", 4), Call("insert", 5),
      Call("insert", 6), Call("insert", 7), Call("remove", 1),
      Call("insert", 19), Call("insert", 19)>>

InitScenario ==
    /\ LET t == BTree_new(<<>>, 2)
       IN  /\ root = t.root
           /\ heap = t.heap
           /\ props = t.props
           /\ panicked = t.panic
    /\ net_calls = 0
    /\ bag = [k \in Keys |-> 0]
    /\ pc = 0
    /\ calls = <<>>
    /\ assoc = [k \in MapKeys |-> None]
    /\ NoReader
    /\ NoCounter
    /\ NoClone
    /\ NoList

ScenarioInsert ==
    /\ ~panicked
    /\ pc < Len(ScenarioA)
    /\ ScenarioA[pc + 1].op = "insert"
    /\ \E m \in insert(props, heap, root, ScenarioA[pc + 1].key) :
          /\ heap' = IF m.panic THEN m.heap ELSE relocate(m.heap, root)
          /\ panicked' = m.panic
          /\ props' = m.props
    /\ net_calls' = net_calls + 1
    /\ pc' = pc + 1
    /\ calls' = Append(calls, ScenarioA[pc + 1])
    /\ UNCHANGED <<root, bag, assoc, reader_vars, counter_vars, clone_vars, list_vars>>

ScenarioRemove ==
    /\ ~panicked
    /\ pc < Len(ScenarioA)
    /\ ScenarioA[pc + 1].op = "remove"
    /\ \E o \in remove(props, heap, root, ScenarioA[pc + 1].key) :
          /\ heap' = IF o.panic THEN o.heap ELSE relocate(o.heap, o.root)
          /\ root' = IF o.panic THEN o.root ELSE 1
          /\ panicked' = o.panic
          /\ props' = o.props
          /\ net_calls' = IF is_some(o.res) THEN net_calls - 1 ELSE net_calls
    /\ pc' = pc + 1
    /\ calls' = Append(calls, ScenarioA[pc + 1])
    /\ UNCHANGED <<bag, assoc, reader_vars, counter_vars, clone_vars, list_vars>>

\* the call at pc is not made
ScenarioSkip ==
    /\ ~panicked
    /\ pc < Len(ScenarioA)
    /\ pc' = pc + 1
    /\ UNCHANGED <<root, heap, props, panicked, net_calls, bag, calls, assoc, reader_vars, counter_vars, clone_vars, list_vars>>

NextScenario == ScenarioInsert \/ ScenarioRemove \/ ScenarioSkip

SpecScenario == InitScenario /\ [][NextScenario]_vars

\* A BTreeMap::new(2) under inserts and removes, with its reference map
\* assoc; branch factor 2 makes nodes split and merge within MaxMapKey keys
InitMap ==
    /\ LET t == BTreeMap_new(<<>>, 2)
       IN  /\ root = t.root
           /\ heap = t.heap
           /\ props = t.props
           /\ panicked = t.panic
    /\ net_calls = 0
    /\ bag = [k \in Keys |-> 0]
    /\ pc = 0
    /\ calls = <<>>
    /\ assoc = [k \in MapKeys |-> None]
    /\ NoReader
    /\ NoCounter
    /\ NoClone
    /\ NoList

\* a map call that took the outcome o
MapDone(o) ==
    /\ heap' = IF o.panic THEN o.heap ELSE relocate(o.heap, o.root)
    /\ root' = IF o.panic THEN o.root ELSE 1
    /\ panicked' = o.panic
    /\ props' = o.props
    /\ UNCHANGED <<net_calls, bag, pc, calls, reader_vars, counter_vars, clone_vars, list_vars>>

MapInsert ==
    /\ ~panicked
    /\ props.len <= MaxMapKey
    /\ \E key \in MapKeys :
       \E value \in Values :
       \E o \in BTreeMap_insert(props, heap, root, key, value) :
          /\ MapDone(o)
          /\ assoc' = [assoc EXCEPT ![key] = Some(value)]

MapRemove ==
    /\ ~panicked
    /\ \E key \in MapKeys :
       \E o \in BTreeMap_remove(props, heap, root, key) :
          /\ MapDone(o)
          /\ assoc' = [assoc EXCEPT ![key] = None]

NextMap == MapInsert \/ MapRemove

SpecMap == InitMap /\ [][NextMap]_vars

\* ---------------------------------------------------------------- counter
\* test_sync_int_mt: the main thread has made the counter and set it to 0; it
\* clones it once per thread it spawns, joins the threads and reads the value.
\* A spawned thread is [pc, left, tmp]: inc() is (*pointer) += 1 on a plain
\* integer, a load of the value into tmp and a store of tmp + 1.
SyncBox_new(value) == [value |-> value, refs |-> 1]

\* SyncBox::clone: one more reference to the same SyncBoxInner
SyncBox_clone(box) == [box EXCEPT !.refs = @ + 1]

Thread(iters) ==
    [pc |-> IF iters = 0 THEN "done" ELSE "load", left |-> iters, tmp |-> 0]

\* the counter's threads touch nothing else
OnlyCounter ==
    UNCHANGED <<root, heap, props, panicked, net_calls, bag, pc, calls,
                assoc, reader_vars, clone_vars, list_vars>>

InitCounter ==
    /\ \E iters \in 1..MaxIters :
          threads = [ths |-> <<>>, iters |-> iters, spawning |-> TRUE,
                     joined |-> 0]
    /\ inner = SyncBox_new(0)
    /\ LET t == BTree_new(<<>>, 2)
       IN  /\ root = t.root
           /\ heap = t.heap
           /\ props = t.props
           /\ panicked = t.panic
    /\ net_calls = 0
    /\ bag = [k \in Keys |-> 0]
    /\ pc = 0
    /\ calls = <<>>
    /\ assoc = [k \in MapKeys |-> None]
    /\ NoReader
    /\ NoClone
    /\ NoList

\* main: idx.clone() and std::thread::spawn
Spawn ==
    /\ threads.spawning
    /\ Len(threads.ths) < MaxThreads
    /\ inner' = SyncBox_clone(inner)
    /\ threads' = [threads EXCEPT !.ths = Append(@, Thread(threads.iters))]
    /\ OnlyCounter

\* main leaves the loop that spawns
SpawnDone ==
    /\ threads.spawning
    /\ Len(threads.ths) >= 1
    /\ threads' = [threads EXCEPT !.spawning = FALSE]
    /\ UNCHANGED inner
    /\ OnlyCounter

\* inc(), first half: a thread reads the value
IncLoad ==
    /\ \E i \in 1..Len(threads.ths) :
          /\ threads.ths[i].pc = "load"
          /\ threads' = [threads EXCEPT !.ths[i].pc = "store",
                                        !.ths[i].tmp = inner.value]
    /\ UNCHANGED inner
    /\ OnlyCounter

\* inc(), second half: the thread writes the value it read plus one
IncStore ==
    /\ \E i \in 1..Len(threads.ths) :
          /\ threads.ths[i].pc = "store"
          /\ inner' = [inner EXCEPT !.value = threads.ths[i].tmp + 1]
          /\ threads' = [threads EXCEPT
                            !.ths[i].left = @ - 1,
                            !.ths[i].pc = IF threads.ths[i].left = 1
                                          THEN "done" ELSE "load"]
    /\ OnlyCounter

\* main: th.join() in the order of spawning
Join ==
    /\ ~threads.spawning
    /\ threads.joined < Len(threads.ths)
    /\ threads.ths[threads.joined + 1].pc = "done"
    /\ threads' = [threads EXCEPT !.joined = @ + 1]
    /\ UNCHANGED inner
    /\ OnlyCounter

NextCounter == Spawn \/ SpawnDone \/ IncLoad \/ IncStore \/ Join

SpecCounter == InitCounter /\ [][NextCounter]_vars

\* A tree or a map that is built by inserts and removes and read in between.
\* The reader holds at most one iterator; every other call drops it.
InitReader ==
    /\ kind \in {"tree", "map"}
    /\ LET t == BTree_new(<<>>, 2)
       IN  /\ root = t.root
           /\ heap = t.heap
           /\ props = t.props
           /\ panicked = t.panic
    /\ net_calls = 0
    /\ bag = [k \in Keys |-> 0]
    /\ pc = 0
    /\ calls = <<>>
    /\ assoc = [k \in MapKeys |-> None]
    /\ last_op = Did("new", None)
    /\ iter_stack = <<>>
    /\ iter_items = <<>>
    /\ NoCounter
    /\ NoClone
    /\ NoList

\* a mutating call that took the outcome o of the tree
Written(name, o) ==
    /\ heap' = IF o.panic THEN o.heap ELSE relocate(o.heap, o.root)
    /\ root' = IF o.panic THEN o.root ELSE 1
    /\ panicked' = o.panic
    /\ props' = o.props
    /\ last_op' = Did(name, None)
    /\ iter_stack' = <<>>
    /\ iter_items' = <<>>
    /\ UNCHANGED <<kind, net_calls, pc, calls, counter_vars, clone_vars, list_vars>>

ReaderInsert ==
    /\ ~panicked
    /\ kind = "tree"
    /\ props.len < MaxReadLen
    /\ \E key \in Keys :
       \E m \in insert(props, heap, root, key) :
          /\ Written("insert", [heap |-> m.heap, root |-> root,
                                panic |-> m.panic, props |-> m.props])
          /\ bag' = [bag EXCEPT ![key] = @ + 1]
          /\ UNCHANGED assoc

ReaderRemove ==
    /\ ~panicked
    /\ kind = "tree"
    /\ \E key \in Keys :
       \E o \in remove(props, heap, root, key) :
          /\ Written("remove", o)
          /\ bag' = IF is_some(o.res) THEN [bag EXCEPT ![key] = @ - 1] ELSE bag
          /\ UNCHANGED assoc

\* the map is filled with the least and the greatest value
ReaderMapInsert ==
    /\ ~panicked
    /\ kind = "map"
    /\ props.len < MaxMapReadLen
    /\ \E key \in MapKeys :
       \E value \in {1, MaxValue} :
       \E o \in BTreeMap_insert(props, heap, root, key, value) :
          /\ Written("insert", o)
          /\ assoc' = [assoc EXCEPT ![key] = Some(value)]
          /\ UNCHANGED bag

ReaderMapRemove ==
    /\ ~panicked
    /\ kind = "map"
    /\ \E key \in MapKeys :
       \E o \in BTreeMap_remove(props, heap, root, key) :
          /\ Written("remove", o)
          /\ assoc' = [assoc EXCEPT ![key] = None]
          /\ UNCHANGED bag

\* a call through &self that returned res: it assigns to no field of the tree
\* or of a node
Read(name, res) ==
    /\ last_op' = Did(name, res)
    /\ iter_stack' = <<>>
    /\ iter_items' = <<>>
    /\ UNCHANGED <<root, heap, props, panicked, net_calls, bag, pc, calls,
                   assoc, kind, counter_vars, clone_vars, list_vars>>

ReadContains ==
    /\ ~panicked /\ kind = "tree"
    /\ \E key \in Keys : Read("contains", contains(heap, root, key))

ReadIsEmpty == ~panicked /\ kind = "tree" /\ Read("is_empty", is_empty(heap, root))

ReadHeight == ~panicked /\ kind = "tree" /\ Read("height", height(heap, root))

ReadLen == ~panicked /\ kind = "tree" /\ Read("len", props.len)

ReadFirst == ~panicked /\ kind = "tree" /\ Read("first", first(heap, root))

ReadLast == ~panicked /\ kind = "tree" /\ Read("last", last_key(heap, root))

ReadDepth == ~panicked /\ kind = "tree" /\ Read("depth", depth(heap, root))

ReadNodeCount ==
    ~panicked /\ kind = "tree" /\ Read("node_count", node_count(heap, root))

ReadRange ==
    /\ ~panicked /\ kind = "tree"
    /\ \E start \in 0..(MaxKey + 1) :
       \E end \in 0..(MaxKey + 1) :
          Read("range", range(heap, root, start, end))

\* iter(): the reader holds a new iterator
IterNew ==
    /\ ~panicked /\ kind = "tree"
    /\ last_op' = Did("iter", None)
    /\ iter_stack' = BTreeIter_new(heap, root)
    /\ iter_items' = <<>>
    /\ UNCHANGED <<root, heap, props, panicked, net_calls, bag, pc, calls,
                   assoc, kind, counter_vars, clone_vars, list_vars>>

\* a next() that takes the key it yields out of its node
IterNext_draining ==
    /\ ~panicked /\ kind = "tree"
    /\ last_op.name \in {"iter", "next"}
    /\ iter_stack # <<>>
    /\ LET frame == vec_last(iter_stack)
           n == next(heap, iter_stack)
       IN  /\ last_op' = Did("next", n.item)
           /\ iter_stack' = n.stack
           /\ iter_items' = iter_items \o n.item
           /\ heap' = [heap EXCEPT ![frame[1]].keys = vec_remove(@, frame[2])]
    /\ UNCHANGED <<root, props, panicked, net_calls, bag, pc, calls,
                   assoc, kind, counter_vars, clone_vars, list_vars>>

\* BTreeIter::next on the iterator the reader holds, also once it is exhausted
IterNext ==
    /\ ~panicked /\ kind = "tree"
    /\ last_op.name \in {"iter", "next"}
    /\ LET n == next(heap, iter_stack)
       IN  /\ last_op' = Did("next", n.item)
           /\ iter_stack' = n.stack
           /\ iter_items' = iter_items \o n.item
    /\ UNCHANGED <<root, heap, props, panicked, net_calls, bag, pc, calls,
                   assoc, kind, counter_vars, clone_vars, list_vars>>

MapGet ==
    /\ ~panicked /\ kind = "map"
    /\ \E key \in MapKeys :
       \E res \in BTreeMap_get(heap, root, key) : Read("get", res)

MapContainsKey ==
    /\ ~panicked /\ kind = "map"
    /\ \E key \in MapKeys :
       \E res \in BTreeMap_contains_key(heap, root, key) :
          Read("contains_key", res)

NextReader ==
    \/ ReaderInsert \/ ReaderRemove \/ ReaderMapInsert \/ ReaderMapRemove
    \/ ReadContains \/ ReadIsEmpty \/ ReadHeight \/ ReadLen \/ ReadFirst
    \/ ReadLast \/ ReadDepth \/ ReadNodeCount \/ ReadRange
    \/ IterNew \/ IterNext \/ MapGet \/ MapContainsKey

SpecReader == InitReader /\ [][NextReader]_vars

Nodes == subtree(heap, root)
NonRootNodes == Nodes \ {root}

\* the only panic is the assert of a construction with a degree below 3
NoPanic == panicked => (props.degree < 3 /\ net_calls = 0)

\* ----------------------------------------------------------------- claims

\* C1: after any sequence of inserts and removes a fresh iter() yields a
\* non-decreasing sequence whose multiset is the inserted keys minus the
\* successfully removed ones, that is exactly len() items.
Thm_C1_IterSortedMultiset ==
    LET s == iter(heap, root)
    IN  /\ non_decreasing(s)
        /\ \A k \in Keys : count(s, k) = bag[k]
        /\ Len(s) = props.len

\* C1 witness: after inserts, a successful remove leaves a tree of two levels
\* or more whose iter() yields four items or more, sorted, with a duplicate
Wit_C1 ==
    \E k \in Keys :
    \E o \in remove(props, heap, root, k) :
        /\ is_some(o.res)
        /\ depth(o.heap, o.root) >= 2
        /\ LET s == iter(o.heap, o.root)
           IN  /\ Len(s) >= 4
               /\ Len(s) = o.props.len
               /\ non_decreasing(s)
               /\ \E j \in Keys : count(s, j) >= 2

\* C2: after every completed insert or remove every non-root node holds at
\* least min_keys = degree / 2 keys.
Claim_C2_MinKeys ==
    \A a \in NonRootNodes : Len(heap[a].keys) >= props.min_keys

\* C3: after every completed insert or remove every non-root node holds at
\* most max_keys = degree - 1 keys.
Claim_C3_MaxKeys ==
    \A a \in NonRootNodes : Len(heap[a].keys) <= props.max_keys

\* C4: at every point len() is the number of insert calls minus the number of
\* remove/pop calls that returned Some, and is the number of keys stored in
\* the nodes reachable from the root.
Thm_C4_LenCounts ==
    /\ props.len = net_calls
    /\ props.len = stored_keys(heap, root)

\* C4 witness: a pop returns Some and frees a node, and len() is one less
\* than the calls counted so far and is the number of keys that remain
Wit_C4 ==
    /\ net_calls >= 4
    /\ \E o \in pop_first(props, heap, root) \cup pop_last(props, heap, root) :
          /\ is_some(o.res)
          /\ node_count(heap, root) > node_count(o.heap, o.root)
          /\ o.props.len = net_calls - 1
          /\ o.props.len = stored_keys(o.heap, o.root)

\* C5: contains(&k) is true exactly when an element equal to k is still
\* stored, that is when k was inserted more often than it was removed.
Thm_C5_ContainsIffStored ==
    \A k \in Keys :
        /\ contains(heap, root, k) <=> bag[k] > 0
        /\ contains(heap, root, k) <=> occurrences(heap, root, k) > 0

\* C5 witness: the last occurrence of a key is removed from a tree that keeps
\* two levels and other keys; contains() was true for it and is false after
Wit_C5 ==
    \E k \in Keys :
        /\ bag[k] = 1
        /\ contains(heap, root, k)
        /\ \E o \in remove(props, heap, root, k) :
              /\ is_some(o.res)
              /\ ~contains(o.heap, o.root, k)
              /\ depth(o.heap, o.root) >= 2
              /\ \E j \in Keys : contains(o.heap, o.root, j)

\* C6: when an element equal to k is stored, remove(&k) returns Some(k),
\* removes exactly one occurrence of k, leaves the multiplicity of every other
\* element alone and decrements len() by exactly 1.
Thm_C6_RemoveStored ==
    \A k \in Keys :
        (~panicked /\ occurrences(heap, root, k) > 0) =>
            \A o \in remove(props, heap, root, k) :
                /\ ~o.panic
                /\ o.res = Some(k)
                /\ \A j \in Keys :
                      occurrences(o.heap, o.root, j) =
                          occurrences(heap, root, j) - (IF j = k THEN 1 ELSE 0)
                /\ o.props.len = props.len - 1

\* C6 witness: a remove of a stored key that frees two nodes (a merge and the
\* collapse of the root)
Wit_C6 ==
    \E k \in Keys :
        /\ occurrences(heap, root, k) > 0
        /\ \E o \in remove(props, heap, root, k) :
              /\ o.res = Some(k)
              /\ node_count(heap, root) >= node_count(o.heap, o.root) + 2

\* C7: remove(&k) for a k equal to no stored element returns None without
\* panicking and leaves len() and the sequence of iter() unchanged.
Thm_C7_RemoveAbsent ==
    \A k \in Keys :
        (~panicked /\ occurrences(heap, root, k) = 0) =>
            \A o \in remove(props, heap, root, k) :
                /\ ~o.panic
                /\ o.res = None
                /\ o.props.len = props.len
                /\ iter(o.heap, o.root) = iter(heap, root)

\* C7 witness: a remove of an absent key that returns None and yet frees a
\* node on its way down
Wit_C7 ==
    \E k \in Keys :
        /\ occurrences(heap, root, k) = 0
        /\ props.len >= 3
        /\ \E o \in remove(props, heap, root, k) :
              /\ o.res = None
              /\ node_count(heap, root) > node_count(o.heap, o.root)

\* C8: insert never rejects or deduplicates: inserting a value equal to a
\* stored one increases len() by 1 and iter() yields that value once more.
Thm_C8_InsertDuplicate ==
    \A k \in Keys :
        (~panicked /\ occurrences(heap, root, k) > 0) =>
            \A m \in insert(props, heap, root, k) :
                LET before == iter(heap, root)
                    after == iter(m.heap, root)
                IN  /\ ~m.panic
                    /\ m.props.len = props.len + 1
                    /\ \A j \in Keys :
                          count(after, j) =
                              count(before, j) + (IF j = k THEN 1 ELSE 0)

\* C8 witness: a value stored three times is inserted a fourth time, the
\* insert splits a node and iter() yields the value four times
Wit_C8 ==
    \E k \in Keys :
        /\ bag[k] = 3
        /\ \E m \in insert(props, heap, root, k) :
              /\ node_count(m.heap, root) > node_count(heap, root)
              /\ count(iter(m.heap, root), k) = 4

\* C9: each node's keys are sorted ascending and, in an internal node, every
\* key of the subtree children[i] is <= keys[i] <= every key of the subtree
\* children[i+1].
Thm_C9_SearchOrder ==
    \A a \in Nodes :
        /\ non_decreasing(heap[a].keys)
        /\ ~is_leaf(heap[a]) =>
              \A i \in 0..(Len(heap[a].keys) - 1) :
                 /\ i < Len(heap[a].children) =>
                       \A k \in subtree_keys(heap, At(heap[a].children, i)) :
                           k <= At(heap[a].keys, i)
                 /\ i + 1 < Len(heap[a].children) =>
                       \A k \in subtree_keys(heap, At(heap[a].children, i + 1)) :
                           At(heap[a].keys, i) <= k

\* C9 witness: a tree of three levels holding two distinct keys or more
Wit_C9 ==
    /\ depth(heap, root) >= 3
    /\ Cardinality(subtree_keys(heap, root)) >= 2

\* C10: every node has either no children or exactly keys.len() + 1 children.
Thm_C10_ChildrenCount ==
    \A a \in Nodes :
        Len(heap[a].children) \in {0, Len(heap[a].keys) + 1}

\* C10 witness: a tree of three levels whose root would collapse on a remove
\* that merges its only two children
Wit_C10 ==
    /\ depth(heap, root) >= 3
    /\ \E k \in Keys :
       \E o \in remove(props, heap, root, k) :
          /\ depth(o.heap, o.root) = 2
          /\ \A a \in subtree(o.heap, o.root) :
                Len(o.heap[a].children) \in {0, Len(o.heap[a].keys) + 1}

\* C14: clear() resets the tree to empty (len() = 0, is_empty(), height() = 0)
\* and keeps the degree, hence max_keys, min_keys and mid_key_index; the tree
\* takes further inserts.
Claim_C14_ClearKeepsDegree ==
    ~panicked =>
        LET t == clear(props, heap, root)
        IN  /\ ~t.panic
            /\ t.props.len = 0
            /\ is_empty(t.heap, t.root)
            /\ height(t.heap, t.root) = 0
            /\ t.props.degree = props.degree
            /\ t.props.max_keys = props.max_keys
            /\ t.props.min_keys = props.min_keys
            /\ t.props.mid_key_index = props.mid_key_index
            /\ \A k \in Keys :
               \A m \in insert(t.props, t.heap, t.root, k) :
                  ~m.panic /\ m.props.len = 1 /\ contains(m.heap, t.root, k)

\* C15: BTree::new(branch_factor) takes degree = 2 * branch_factor and panics
\* exactly when the degree is below 3 (branch_factor 0 or 1); for every
\* branch_factor >= 2 it returns an empty tree with max_keys = degree - 1,
\* min_keys = degree / 2, mid_key_index = (degree - 1) / 2 and len 0.
Thm_C15_NewDegree ==
    /\ panicked <=> props.degree < 3
    /\ ~panicked =>
          /\ props.max_keys = props.degree - 1
          /\ props.min_keys = props.degree \div 2
          /\ props.mid_key_index = (props.degree - 1) \div 2
    /\ \A b \in BranchFactors :
          LET t == BTree_new(heap, b)
          IN  /\ t.panic <=> b \in {0, 1}
              /\ b >= 2 =>
                    /\ t.props = [degree |-> 2 * b,
                                  max_keys |-> 2 * b - 1,
                                  min_keys |-> b,
                                  mid_key_index |-> (2 * b - 1) \div 2,
                                  len |-> 0]
                    /\ t.heap[t.root] = Node(<<>>, <<>>, None)
                    /\ is_empty(t.heap, t.root)

\* C15 witness: the construction with branch_factor 1 (degree 2) has panicked
Wit_C15 ==
    /\ panicked
    /\ props.degree = 2
    /\ net_calls = 0

\* C16: in every state reachable by inserts and removes, is_empty() <=>
\* len() = 0 <=> the root has zero keys, and then the root has zero children,
\* height() = 0, node_count() = 1, first() = last() = None and contains(x) is
\* false for every x.
Thm_C16_EmptyTree ==
    ~panicked =>
        /\ is_empty(heap, root) <=> props.len = 0
        /\ props.len = 0 <=> heap[root].keys = <<>>
        /\ props.len = 0 =>
              /\ heap[root].children = <<>>
              /\ height(heap, root) = 0
              /\ node_count(heap, root) = 1
              /\ first(heap, root) = None
              /\ last_key(heap, root) = None
              /\ \A x \in Keys : ~contains(heap, root, x)

\* C16 witness: a remove takes the only key of a tree and leaves the empty
\* one-node tree
Wit_C16 ==
    /\ ~panicked
    /\ props.len = 1
    /\ \E k \in Keys :
       \E o \in remove(props, heap, root, k) :
          /\ is_some(o.res)
          /\ is_empty(o.heap, o.root)
          /\ o.props.len = 0
          /\ node_count(o.heap, o.root) = 1
          /\ first(o.heap, o.root) = None

\* the bounds a range is asked with: the keys and one value on either side
RangeBounds == 0..(MaxKey + 1)

\* n copies of k
RECURSIVE copies(_, _)
copies(k, n) == IF n = 0 THEN <<>> ELSE <<k>> \o copies(k, n - 1)

\* the keys k .. end of the reference multiset, ascending, each as often as
\* it is stored
RECURSIVE stored_from(_, _)
stored_from(k, end) ==
    IF k > end \/ k > MaxKey THEN <<>>
    ELSE (IF k \in Keys THEN copies(k, bag[k]) ELSE <<>>) \o stored_from(k + 1, end)

\* C17: range(start, end) yields, ascending and with multiplicity, exactly the
\* stored elements k with start <= k <= end, and nothing when start > end.
Thm_C17_RangeInclusive ==
    ~panicked =>
        LET items == iter(heap, root)
        IN  \A start \in RangeBounds :
            \A end \in RangeBounds :
                LET yielded == range_over(items, start, end)
                IN  /\ yielded = stored_from(start, end)
                    /\ start > end => yielded = <<>>

\* C17 witness: on a tree of two levels or more every key is stored twice or
\* more, so each range with start = end skips or stops before stored items
Wit_C17 ==
    /\ depth(heap, root) >= 2
    /\ \A k \in Keys :
          /\ Len(range(heap, root, k, k)) >= 2
          /\ Len(range(heap, root, k, k)) < props.len

\* the keys of the reference multiset
StoredKeys == {k \in Keys : bag[k] > 0}
MinStored == CHOOSE k \in StoredKeys : \A j \in StoredKeys : k <= j
MaxStored == CHOOSE k \in StoredKeys : \A j \in StoredKeys : j <= k

\* what C18 asks of a pop on a non-empty tree: it returns the element `end`,
\* takes one occurrence of it away and decrements len() by 1
PopTakes(o, end) ==
    /\ ~o.panic
    /\ o.res = Some(end)
    /\ \A j \in Keys :
          occurrences(o.heap, o.root, j) =
              occurrences(heap, root, j) - (IF j = end THEN 1 ELSE 0)
    /\ o.props.len = props.len - 1

\* C18: on a non-empty tree pop_first() (pop_last()) returns the minimum
\* (maximum) stored element, which is what first() (last()) returned just
\* before, removes exactly one occurrence of it and decrements len() by 1; on
\* an empty tree both return None and change nothing.
Thm_C18_PopFirstLast ==
    ~panicked =>
        /\ ~is_empty(heap, root) =>
              /\ first(heap, root) = Some(MinStored)
              /\ last_key(heap, root) = Some(MaxStored)
              /\ \A o \in pop_first(props, heap, root) : PopTakes(o, MinStored)
              /\ \A o \in pop_last(props, heap, root) : PopTakes(o, MaxStored)
        /\ is_empty(heap, root) =>
              \A o \in pop_first(props, heap, root) \cup pop_last(props, heap, root) :
                  /\ ~o.panic
                  /\ o.res = None
                  /\ o.heap = heap /\ o.root = root /\ o.props = props

\* C18 witness: on a tree of three levels that holds two distinct keys a
\* pop_first and a pop_last each return their end and free a node
Wit_C18 ==
    /\ depth(heap, root) >= 3
    /\ MinStored < MaxStored
    /\ \E o \in pop_first(props, heap, root) :
          o.res = Some(MinStored) /\ node_count(o.heap, o.root) < node_count(heap, root)
    /\ \E o \in pop_last(props, heap, root) :
          o.res = Some(MaxStored) /\ node_count(o.heap, o.root) < node_count(heap, root)

\* the least e with b^e >= n, that is ceil(log_b(n)) for n >= 1
RECURSIVE ceil_log_from(_, _, _, _)
ceil_log_from(b, n, power, e) ==
    IF power >= n THEN e ELSE ceil_log_from(b, n, power * b, e + 1)

ceil_log(b, n) == ceil_log_from(b, n, 1, 0)

\* C19: for every reachable non-empty tree height() never exceeds
\* ceil(log_{min_keys+1}(len()+1)) + 1 with min_keys = degree / 2 (ascending
\* inserts with branch_factor 2 among the sequences).
Claim_C19_HeightBound ==
    (~panicked /\ ~is_empty(heap, root)) =>
        height(heap, root) <= ceil_log(props.min_keys + 1, props.len + 1) + 1

\* the first n calls of Scenario A were all made, and no other
Made(n) == pc = n /\ calls = SubSeq(ScenarioA, 1, n)

\* C20 (Scenario A): with branch_factor 2, the inserts 1337, 1, 2, ..., 7 give
\* len() = 8, node_count() = 5, depth() = 2; then remove(&1) gives
\* node_count() = 4, len() = 7, depth() = 2, contains(&1) false and
\* contains(&i) for i in 2..7; then insert(19) gives len() = 8,
\* node_count() = 4; a second insert(19) gives len() = 9, depth() = 2,
\* node_count() = 5.
Thm_C20_ScenarioA ==
    /\ Made(8) =>
          /\ ~panicked
          /\ props.len = 8
          /\ node_count(heap, root) = 5
          /\ depth(heap, root) = 2
    /\ Made(9) =>
          /\ ~panicked
          /\ node_count(heap, root) = 4
          /\ props.len = 7
          /\ depth(heap, root) = 2
          /\ ~contains(heap, root, 1)
          /\ \A i \in 2..7 : contains(heap, root, i)
    /\ Made(10) =>
          /\ ~panicked
          /\ props.len = 8
          /\ node_count(heap, root) = 4
    /\ Made(11) =>
          /\ ~panicked
          /\ props.len = 9
          /\ depth(heap, root) = 2
          /\ node_count(heap, root) = 5

\* C20 witness: the end of Scenario A, every call made
Wit_C20 ==
    /\ Made(11)
    /\ props.len = 9
    /\ contains(heap, root, 19)

\* Claim C11: BTreeMap::insert(k, v) returns Some(old value) exactly when k
\* was present and None otherwise; afterwards get(&k) is Some(&v); len is
\* unchanged when a value was replaced and one more when k was new.
Thm_C11_MapInsert ==
    (~panicked /\ props.len <= MaxMapKey) =>
        \A key \in MapKeys :
        \A value \in Values :
        \A o \in BTreeMap_insert(props, heap, root, key, value) :
            /\ ~o.panic
            /\ o.res = assoc[key]
            /\ BTreeMap_get(o.heap, o.root, key) = {Some(value)}
            /\ o.props.len = props.len + (IF is_some(assoc[key]) THEN 0 ELSE 1)

\* a map of depth 2 or more in which one insert replaces the value of a
\* present key by a different one and another insert adds a new key
Wit_C11 ==
    /\ ~panicked
    /\ depth_from(heap, root) >= 2
    /\ \E key \in MapKeys :
       \E value \in Values :
       \E o \in BTreeMap_insert(props, heap, root, key, value) :
          /\ is_some(assoc[key])
          /\ assoc[key] # Some(value)
          /\ o.res = assoc[key]
          /\ o.props.len = props.len
    /\ \E key \in MapKeys :
       \E value \in Values :
       \E o \in BTreeMap_insert(props, heap, root, key, value) :
          /\ assoc[key] = None
          /\ o.res = None
          /\ o.props.len = props.len + 1


\* Claim C12: BTreeMap behaves like a reference finite map under any sequence
\* of insert and remove: get(&k) is Some(&v) with v the value of the most
\* recent insert(k, _) not followed by remove(&k) and None otherwise, and
\* contains_key(&k) equals get(&k).is_some().
Thm_C12_MapRefinement ==
    ~panicked =>
        \A key \in MapKeys :
            /\ BTreeMap_get(heap, root, key) = {assoc[key]}
            /\ BTreeMap_contains_key(heap, root, key) = {is_some(assoc[key])}

\* a map of depth 2 or more holding a present key that is stored below the
\* root, an absent key smaller than a present one, and two keys with
\* different values
Wit_C12 ==
    /\ ~panicked
    /\ depth_from(heap, root) >= 2
    /\ \E key \in MapKeys :
          /\ is_some(assoc[key])
          /\ BTreeMap_get(heap, root, key) = {assoc[key]}
          /\ BTreeMap_get_root_only(heap, root, key) = {None}
    /\ \E key \in MapKeys :
          /\ assoc[key] = None
          /\ \E above \in MapKeys : above > key /\ is_some(assoc[above])
          /\ BTreeMap_contains_key(heap, root, key) = {FALSE}
    /\ \E k1 \in MapKeys :
       \E k2 \in MapKeys :
          /\ is_some(assoc[k1])
          /\ is_some(assoc[k2])
          /\ assoc[k1] # assoc[k2]


\* Claim C13: BTreeMap::remove(&k) returns Some(v), v being the value
\* associated with k, when k is present, after which contains_key(&k) is false
\* and len is one less; when k is absent it returns None and changes neither
\* len nor any association.
Thm_C13_MapRemove ==
    ~panicked =>
        \A key \in MapKeys :
        \A o \in BTreeMap_remove(props, heap, root, key) :
            /\ ~o.panic
            /\ o.res = assoc[key]
            /\ BTreeMap_contains_key(o.heap, o.root, key) = {FALSE}
            /\ o.props.len = props.len - (IF is_some(assoc[key]) THEN 1 ELSE 0)
            /\ \A other \in MapKeys \ {key} :
                  BTreeMap_get(o.heap, o.root, other) = {assoc[other]}

\* a map of depth 2 or more whose stored values differ, from which one remove
\* takes a present key out of an internal node and another finds its key
\* absent
Wit_C13 ==
    /\ ~panicked
    /\ depth_from(heap, root) >= 2
    /\ \E key \in MapKeys :
       \E o \in BTreeMap_remove(props, heap, root, key) :
          /\ is_some(assoc[key])
          /\ BTreeMap_get_root_only(heap, root, key) = {assoc[key]}
          /\ o.res = assoc[key]
          /\ o.props.len = props.len - 1
          /\ \E other \in MapKeys : is_some(assoc[other]) /\ assoc[other] # assoc[key]
    /\ \E key \in MapKeys :
       \E o \in BTreeMap_remove(props, heap, root, key) :
          /\ assoc[key] = None
          /\ o.res = None
          /\ o.props.len = props.len


\* the calls that take &self
ReadOnly ==
    {"contains", "iter", "next", "range", "first", "last", "len", "is_empty",
     "height", "depth", "node_count", "get", "contains_key"}

Claim_C22_NoLostIncrement ==
    (~threads.spawning /\ threads.joined = Len(threads.ths)) =>
        inner.value = Len(threads.ths) * threads.iters


\* Claim C23: whenever insert_non_full is invoked on a node (the root after
\* the optional root split, or a child chosen during the descent), that node
\* holds fewer than max_keys keys, in every reachable tree, those reshaped by
\* removes and merges included.
Claim_C23_DescendsNonFull ==
    ~panicked =>
        \A key \in Keys :
        \A m \in insert_non_full(props, insert_split_root(props, heap, root),
                                 root, key) :
        \A i \in 1..Len(m.entered) : m.entered[i].keys < props.max_keys


\* Claim C24: an insert increases depth() by exactly 1 when the root holds at
\* least max_keys keys at the start of the call, and leaves depth() unchanged
\* in every other case; splits below the root never change depth().
Thm_C24_DepthGrowsAtRoot ==
    ~panicked =>
        \A key \in Keys :
        \A m \in insert(props, heap, root, key) :
            /\ ~m.panic
            /\ depth(m.heap, root) =
                  depth(heap, root) +
                  (IF Len(heap[root].keys) >= props.max_keys THEN 1 ELSE 0)

\* on a tree of depth 2 the root is full and an insert makes the depth 3
Wit_C24 ==
    /\ ~panicked
    /\ depth(heap, root) = 2
    /\ Len(heap[root].keys) >= props.max_keys
    /\ \E key \in Keys :
       \E m \in insert(props, heap, root, key) : depth(m.heap, root) = 3


\* the position of the address ptr in the children of a node
position(children, ptr) == CHOOSE j \in 0..(Len(children) - 1) : At(children, j) = ptr

\* The steps of one insert_non_full descent m at which the child was split
\* before it was entered: [parent, child, right, separator]. The node entered
\* at step i held one key less than it does in the end exactly when it split
\* a child; the right half is the node allocated by that split.
SplitSteps(m) ==
    { [parent |-> m.entered[i].node_ptr,
       child |-> m.entered[i + 1].node_ptr,
       right |-> m.entered[i + 1].node_ptr \notin m.entered[i].allocated,
       separator |->
          LET node == m.heap[m.entered[i].node_ptr]
              j == position(node.children, m.entered[i + 1].node_ptr)
          IN  IF m.entered[i + 1].node_ptr \notin m.entered[i].allocated
              THEN At(node.keys, j - 1)
              ELSE At(node.keys, j)]
      : i \in { i \in 1..(Len(m.entered) - 1) :
                  Len(m.heap[m.entered[i].node_ptr].keys) = m.entered[i].keys + 1 } }

\* the descents of an insert of key into the tree of the current state
Descents(key) ==
    insert_non_full(props, insert_split_root(props, heap, root), root, key)

\* Claim C25: after insert_non_full splits the full child children[i], it
\* descends into children[i+1] whenever key is not less than the separator
\* promoted into keys[i] (also when key equals it), and stays on children[i]
\* only when key is less than the separator.
Claim_C25_RightUnlessLess ==
    ~panicked =>
        \A key \in Keys :
        \A m \in Descents(key) :
        \A s \in SplitSteps(m) : s.right <=> ~(key < s.separator)

\* C25 as the code has it: after insert_non_full splits the full child
\* children[i], it descends into children[i+1] exactly when the separator
\* promoted into keys[i] is less than key, and stays on children[i] when key
\* is less than or equal to the separator.
Thm_C25_RightWhenGreater ==
    ~panicked =>
        \A key \in Keys :
        \A m \in Descents(key) :
            /\ ~m.panic
            /\ \A s \in SplitSteps(m) : s.right <=> s.separator < key

\* an insert splits a child below the root of a tree of depth 2 or more, the
\* separator equals the key and the descent stays on the left half; another
\* insert into the same tree goes to the right half of a split
Wit_C25 ==
    /\ ~panicked
    /\ depth(heap, root) >= 2
    /\ \E key \in Keys :
       \E m \in Descents(key) :
       \E s \in SplitSteps(m) : s.separator = key /\ ~s.right
    /\ \E key \in Keys :
       \E m \in Descents(key) :
       \E s \in SplitSteps(m) : s.separator < key /\ s.right


\* Claim C26: after every remove the root's parent back-reference is None and
\* the root has zero keys only if it has no children; when rebalancing leaves
\* the root with zero keys and one child, that child becomes the root, the old
\* root node is freed without freeing the promoted subtree, and depth()
\* decreases by exactly 1.
Thm_C26_RootCollapse ==
    ~panicked =>
        \A key \in Keys :
        \A o \in remove(props, heap, root, key) :
            /\ ~o.panic
            /\ o.root \in DOMAIN o.heap
            /\ o.heap[o.root].parent = None
            /\ o.heap[o.root].keys = <<>> => o.heap[o.root].children = <<>>
            /\ o.root # root =>
                  /\ o.root \in subtree(heap, root) \ {root}
                  /\ root \notin DOMAIN o.heap
                  /\ subtree(o.heap, o.root) \subseteq DOMAIN o.heap
                  /\ depth(o.heap, o.root) = depth(heap, root) - 1
            /\ o.root = root => depth(o.heap, o.root) = depth(heap, root)

\* a remove on a tree of depth 3 empties the root by a merge: the merged child
\* becomes the root of a tree of depth 2 with all its keys but the removed one
Wit_C26 ==
    /\ ~panicked
    /\ depth(heap, root) = 3
    /\ \E key \in Keys :
       \E o \in remove(props, heap, root, key) :
          /\ o.root # root
          /\ root \notin DOMAIN o.heap
          /\ depth(o.heap, o.root) = 2
          /\ is_some(o.res)
          /\ o.props.len = props.len - 1


\* the number of keys of child i of the node at address a in the heap h
child_len(h, a, i) == Len(h[At(h[a].children, i)].keys)

\* the key counts of the children of the node at address a
child_lens(h, a) == [i \in 1..Len(h[a].children) |-> child_len(h, a, i - 1)]

\* what C27 asks of the machine m2 that ensure_child_has_enough_keys(a, idx)
\* leaves when called on the tree of the current state
Rebalanced(m2, a, idx) ==
    LET lens == child_lens(heap, a)
        after == child_lens(m2.heap, a)
        n == Len(lens)
        left_rich == idx > 0 /\ child_len(heap, a, idx - 1) > props.min_keys
        right_rich == idx < n - 1 /\ child_len(heap, a, idx + 1) > props.min_keys
    IN  /\ ~m2.panic
        /\ \A k \in Keys :
              sum_count(m2.heap, subtree(m2.heap, a), k) =
                  sum_count(heap, subtree(heap, a), k)
        /\ IF left_rich
           THEN after = [lens EXCEPT ![idx] = @ - 1, ![idx + 1] = @ + 1]
           ELSE IF right_rich
           THEN after = [lens EXCEPT ![idx + 2] = @ - 1, ![idx + 1] = @ + 1]
           ELSE IF idx < n - 1
           THEN after = [i \in 1..(n - 1) |->
                           IF i < idx + 1 THEN lens[i]
                           ELSE IF i = idx + 1 THEN lens[idx + 1] + 1 + lens[idx + 2]
                           ELSE lens[i + 1]]
           ELSE after = [i \in 1..(n - 1) |->
                           IF i < idx THEN lens[i]
                           ELSE lens[idx] + 1 + lens[idx + 1]]

\* the calls remove_from_node makes: an internal node and a child of at most
\* min_keys keys
Underfull ==
    UNION { { <<a, i>> : i \in { j \in 0..(Len(heap[a].children) - 1) :
                                    child_len(heap, a, j) <= props.min_keys } } :
            a \in Nodes }

\* Claim C27: ensure_child_has_enough_keys(parent, idx) borrows from the left
\* sibling whenever idx > 0 and that sibling has more than min_keys keys;
\* otherwise from the right sibling when one exists with more than min_keys
\* keys; otherwise it merges the child with its right sibling if idx is not
\* the last child index, else with its left sibling; in all cases the multiset
\* of keys in parent's subtree is unchanged.
Thm_C27_BorrowThenMerge ==
    ~panicked =>
        \A c \in Underfull :
            Rebalanced(ensure_child_has_enough_keys(props, Mach(heap), c[1], c[2]),
                       c[1], c[2])

\* a child with too few keys stands between two siblings that both have keys
\* to spare, and the left one gives
Wit_C27 ==
    /\ ~panicked
    /\ \E c \in Underfull :
          /\ c[2] > 0
          /\ c[2] < Len(heap[c[1]].children) - 1
          /\ child_len(heap, c[1], c[2] - 1) > props.min_keys
          /\ child_len(heap, c[1], c[2] + 1) > props.min_keys
          /\ Rebalanced(ensure_child_has_enough_keys(props, Mach(heap), c[1], c[2]),
                        c[1], c[2])


\* the keys the iterator it has not yielded yet
NotYetYielded(it) ==
    {k \in Keys : occurrences(heap, root, k) > count(it.items, k)}

\* the chain of frames (a, 0) from the node at address a down its first
\* children to a leaf
RECURSIVE left_path(_, _)
left_path(h, a) ==
    IF is_leaf(h[a]) THEN <<<<a, 0>>>>
    ELSE <<<<a, 0>>>> \o left_path(h, At(h[a].children, 0))

\* the top frame of the iterator it is on a key of an internal node
OnInternalKey(it) ==
    /\ it.stack # <<>>
    /\ ~is_leaf(heap[vec_last(it.stack)[1]])
    /\ vec_last(it.stack)[2] < Len(heap[vec_last(it.stack)[1]].keys)

\* the call of next on the iterator it, whose top frame is (node, idx) on an
\* internal node, leaves the left path of children[idx+1] above the frame
\* (node, idx+1), and that frame is the top of the stack exactly when every
\* key of the subtree of children[idx+1] has been yielded
PathAboveFrame(it) ==
    LET node_ptr == vec_last(it.stack)[1]
        idx == vec_last(it.stack)[2]
        node == heap[node_ptr]
        child == At(node.children, idx + 1)
        below == IF idx + 1 < Len(node.keys)
                 THEN Append(vec_pop(it.stack), <<node_ptr, idx + 1>>)
                 ELSE vec_pop(it.stack)
        after == advance(heap, it, 1)
        size == sum_keys(heap, subtree(heap, child))
    IN  /\ after.stack = below \o left_path(heap, child)
        /\ \A j \in 0..(size - 1) :
              Len(advance(heap, after, j).stack) > Len(below)
        /\ advance(heap, after, size).stack = below

\* the iterator it, which has made n calls of next, and every iterator that
\* further calls make of it, up to len() calls in all: the top frame is on the
\* smallest key not yet yielded, stored[k] being how often the tree holds k
RECURSIVE TopIsSmallestFrom(_, _, _)
TopIsSmallestFrom(it, n, stored) ==
    LET rest == {k \in Keys : stored[k] > count(it.items, k)}
    IN  /\ Len(it.items) = n
        /\ rest # {} =>
              /\ it.stack # <<>>
              /\ vec_last(it.stack)[2] < Len(heap[vec_last(it.stack)[1]].keys)
              /\ At(heap[vec_last(it.stack)[1]].keys, vec_last(it.stack)[2])
                     = CHOOSE k \in rest : \A j \in rest : k <= j
        /\ rest = {} => next(heap, it.stack).item = None
        /\ OnInternalKey(it) => PathAboveFrame(it)
        /\ n < props.len =>
              TopIsSmallestFrom(advance(heap, it, 1), n + 1, stored)

\* Claim C28: between calls to BTreeIter::next the top frame (node, idx) of
\* the iterator stack always designates the smallest key not yet yielded:
\* after yielding keys[idx] of an internal node, the frames of the left path
\* of children[idx+1] lie above the frame (node, idx+1), so the whole subtree
\* between keys[idx] and keys[idx+1] is yielded before keys[idx+1].
Thm_C28_TopIsSmallest ==
    ~panicked =>
        TopIsSmallestFrom(BTreeIter_after(heap, root, 0), 0,
                          [k \in Keys |-> occurrences(heap, root, k)])

\* an iterator stands on a key of an internal node that has a greater key to
\* its right, with a subtree between the two
Wit_C28 ==
    /\ ~panicked
    /\ \E n \in 0..props.len :
          LET it == BTreeIter_after(heap, root, n)
          IN  /\ OnInternalKey(it)
              /\ vec_last(it.stack)[2] + 1 < Len(heap[vec_last(it.stack)[1]].keys)
              /\ At(heap[vec_last(it.stack)[1]].keys, vec_last(it.stack)[2])
                    < At(heap[vec_last(it.stack)[1]].keys, vec_last(it.stack)[2] + 1)
              /\ PathAboveFrame(it)


\* what BTreeSet::remove called with the pair leaves and returns, the returned
\* pair read by its value
SetRemoveOfPair(pair) ==
    { [o EXCEPT !.res = IF is_some(@) THEN Some(pair_value(unwrap(@))) ELSE None]
      : o \in BTreeSet_remove(props, heap, root, pair) }

\* Claim C29: for every reachable map state and key k, BTreeMap::remove(&k)
\* leaves the underlying set in exactly the state (node structure, keys per
\* node, len) that BTreeSet::remove called with a pair of key k would produce
\* from the same state, and returns the value of the pair that set-remove
\* returns.
Thm_C29_MapRemoveIsSetRemove ==
    ~panicked =>
        \A key \in MapKeys :
            LET removed == BTreeMap_remove(props, heap, root, key)
            IN  \A value \in 0..MaxValue :
                    removed = SetRemoveOfPair(MapPair(key, value))

\* the key to remove stands in an internal node, so the removal takes a
\* predecessor or a successor or merges, and both removals return its value
Wit_C29 ==
    /\ ~panicked
    /\ \E key \in MapKeys :
          /\ ~is_leaf(heap[root])
          /\ \E i \in 1..Len(heap[root].keys) : pair_key(heap[root].keys[i]) = key
          /\ BTreeMap_remove(props, heap, root, key) =
                 SetRemoveOfPair(MapPair(key, 0))
          /\ \E o \in BTreeMap_remove(props, heap, root, key) :
                ~o.panic /\ o.res = assoc[key] /\ is_some(o.res)


\* Claim C30: in the single-file implementation src/btree.rs, iter() yields
\* all stored keys in ascending order for every tree built by inserts,
\* including trees in which an internal node holds two or more keys (e.g.
\* branch_factor 2 after inserting 1..=6).
Claim_C30_SingleFileAscending ==
    ~panicked =>
        LET s == btree_rs_iter(heap, root)
        IN  /\ Len(s) = props.len
            /\ {s[i] : i \in 1..Len(s)} = subtree_keys(heap, root)
            /\ \A i \in 1..(Len(s) - 1) : s[i] < s[i + 1]


\* the trees [heap, root] that the calls insert, remove, pop_first, pop_last
\* and clear leave when made on the tree of the current state and completed,
\* as the calls leave them; a pop is the remove of a stored key, and remove is
\* taken for every key
AfterAnyCall ==
    UNION {
      { [heap |-> m.heap, root |-> root] :
          m \in { x \in UNION {insert(props, heap, root, key) : key \in Keys} :
                    ~x.panic } },
      { [heap |-> o.heap, root |-> o.root] :
          o \in { x \in UNION {remove(props, heap, root, key) : key \in Keys} :
                    ~x.panic } },
      { [heap |-> t.heap, root |-> t.root] :
          t \in { x \in {clear(props, heap, root)} : ~x.panic } } }

\* the number of entries of the children lists of the nodes ptrs
RECURSIVE sum_children(_, _)
sum_children(h, ptrs) ==
    IF ptrs = {} THEN 0
    ELSE LET a == CHOOSE x \in ptrs : TRUE
         IN  Len(h[a].children) + sum_children(h, ptrs \ {a})

\* the addresses listed as a child in h
Listed(h) ==
    UNION {{h[a].children[i] : i \in 1..Len(h[a].children)} : a \in DOMAIN h}

\* every allocated node of h is owned: the tree owns the root r, the listed
\* children are the allocated nodes other than the root, each listed once (as
\* many entries as such nodes), and the traversal from the root counts them
\* all
Owned(h, r) ==
    /\ r \in DOMAIN h
    /\ Listed(h) = DOMAIN h \ {r}
    /\ sum_children(h, DOMAIN h) = Cardinality(DOMAIN h) - 1
    /\ node_count(h, r) = Cardinality(DOMAIN h)

\* Claim C31: after every completed operation (insert, remove, pop, clear) the
\* set of allocated-and-not-yet-freed nodes equals the set of nodes reachable
\* from the root through children lists: no node is leaked, no freed node is
\* still listed as a child, each non-root node appears in exactly one children
\* list, and node_count() equals the size of that set.
Thm_C31_NoLeakNoDangling ==
    ~panicked => \A t \in AfterAnyCall : Owned(t.heap, t.root)

\* a call that freed nodes of a tree of three levels has completed and left
\* every remaining node owned
Wit_C31 ==
    /\ ~panicked
    /\ depth(heap, root) = 3
    /\ \E t \in AfterAnyCall :
          /\ Cardinality(DOMAIN t.heap) < Cardinality(DOMAIN heap) - 1
          /\ Cardinality(DOMAIN t.heap) > 1
          /\ Owned(t.heap, t.root)


\* Claim C32: parent back-references are consistent in every reachable state:
\* for every node p and every child c listed in p.children, c.parent ==
\* Some(p), and root.parent == None; in particular no parent back-reference
\* ever designates a node that has been freed.
Claim_C32_ParentsConsistent ==
    ~panicked =>
        /\ heap[root].parent = None
        /\ \A p \in Nodes :
              \A i \in 1..Len(heap[p].children) :
                  heap[heap[p].children[i]].parent = Some(p)


\* the lengths of the paths from the node at node_ptr down to the leaves below
\* it, counted in nodes
RECURSIVE leaf_distances(_, _)
leaf_distances(h, node_ptr) ==
    IF is_leaf(h[node_ptr]) THEN {1}
    ELSE UNION { {d + 1 : d \in leaf_distances(h, h[node_ptr].children[i])}
                 : i \in 1..Len(h[node_ptr].children) }

\* Claim C33: in every reachable state all leaves are at the same distance
\* from the root, so depth() (measured along the leftmost path) equals the
\* length of every root-to-leaf path; borrow, merge, split and root collapse
\* all preserve this.
Thm_C33_Balanced ==
    ~panicked => leaf_distances(heap, root) = {depth(heap, root)}

\* a tree whose root has been split, with three leaves or more, one of which
\* has since been made by a merge (only a merge leaves more than max_keys keys
\* in a node)
Wit_C33 ==
    /\ ~panicked
    /\ depth(heap, root) = 2
    /\ Len(heap[root].children) > 2
    /\ \E a \in NonRootNodes : Len(heap[a].keys) > props.max_keys
    /\ leaf_distances(heap, root) = {2}


\* the outcomes of the calls insert, remove, pop_first and pop_last made on
\* the tree of the current state: whether the call aborted
Aborts ==
    {m.panic : m \in UNION {insert(props, heap, root, key) : key \in Keys}}
    \cup {o.panic : o \in UNION {remove(props, heap, root, key) : key \in Keys}}
    \cup {o.panic : o \in pop_first(props, heap, root) \cup pop_last(props, heap, root)}

\* Claim C34: for a single (never cloned) tree with branch_factor >= 2 and any
\* sequence of insert, remove, pop_first and pop_last calls, no operation
\* aborts: no key or child index is out of bounds (including child_idx - 1 in
\* ensure_child_has_enough_keys), no unwrap() is applied to None in split,
\* borrow, merge or predecessor/successor lookup, and props.len never
\* underflows.
\* (an operation that aborts leaves the program panicked)
Thm_C34_NoAbort == ~panicked

\* a removal finds the last child of a node short of keys with no sibling to
\* borrow from, so child_idx - 1 is used for the merge, and completes
Wit_C34 ==
    /\ ~panicked
    /\ props.degree >= 4
    /\ \E c \in Underfull :
          /\ c[2] > 0
          /\ c[2] = Len(heap[c[1]].children) - 1
          /\ child_len(heap, c[1], c[2] - 1) <= props.min_keys
          /\ \E key \in Keys :
                /\ \A i \in 1..Len(heap[c[1]].keys) : heap[c[1]].keys[i] < key
                /\ \A o \in remove(props, heap, root, key) : ~o.panic
    /\ Aborts = {FALSE}


\* the keys, stored ones and others, that no stored element equals
AbsentKeys == (0..(MaxKey + 1)) \ subtree_keys(heap, root)

\* Claim C35 as stated: remove(&k) for a k equal to no stored element leaves
\* the tree's structure unchanged: node_count(), depth() and the key sequence
\* held by every node are the same after the call as before it.
Claim_C35_AbsentRemoveKeepsStructure ==
    ~panicked =>
        \A k \in AbsentKeys :
        \A o \in remove(props, heap, root, k) :
            /\ ~o.panic
            /\ node_count(o.heap, o.root) = node_count(heap, root)
            /\ depth(o.heap, o.root) = depth(heap, root)
            /\ relocate(o.heap, o.root) = heap

\* Claim C35, amended: remove(&k) for a k equal to no stored element returns
\* None and leaves len() and the sequence of iter() unchanged (the nodes on the
\* way down may be rebalanced before the key is known to be absent).
Thm_C35_AbsentRemoveKeepsContents ==
    ~panicked =>
        LET before == iter(heap, root)
        IN  \A k \in AbsentKeys :
            \A o \in remove(props, heap, root, k) :
                /\ ~o.panic
                /\ o.res = None
                /\ o.props = props
                /\ iter(o.heap, o.root) = before

\* the removal of an absent key has merged nodes on its way down and has left
\* the contents as they were
Wit_C35 ==
    /\ ~panicked
    /\ \E k \in AbsentKeys :
       \E o \in remove(props, heap, root, k) :
          /\ ~o.panic
          /\ o.res = None
          /\ node_count(o.heap, o.root) < node_count(heap, root)
          /\ iter(o.heap, o.root) = iter(heap, root)


\* the handle [root, props] on the shared heap holds what the reference
\* multiset b says: iter() and len() agree with it
Holds(r, p, b) ==
    /\ twin.stale = {}
    /\ r \in DOMAIN heap
    /\ LET s == iter(heap, r)
       IN  /\ \A k \in Keys : count(s, k) = b[k]
           /\ Len(s) = p.len

\* Claim C36: clone() of a BTree yields a tree independent of the original:
\* subsequent inserts and removes on either one do not change the other's
\* iter() sequence, len() or node graph, and dropping both frees every node
\* exactly once.
Claim_C36_CloneIndependent ==
    (twin.made /\ ~panicked) =>
        /\ TreeLive => Holds(root, props, bag)
        /\ CloneLive => Holds(twin.root, twin.props, twin.bag)
        /\ ~twin.double_free
        /\ twin.dropped = {"tree", "clone"} => DOMAIN heap = {}


\* the pairs of the set under the map with root r in h are in strictly
\* increasing order of key, and there are n of them
DistinctKeys(h, r, n) ==
    LET s == iter(h, r)
    IN  /\ \A i \in 1..(Len(s) - 1) : pair_key(s[i]) < pair_key(s[i + 1])
        /\ Len(s) = n

\* the number of keys the reference map a associates with a value
Associated(a) == Cardinality({k \in MapKeys : is_some(a[k])})

\* Claim C37: a BTreeMap never holds two pairs with equal keys: after any
\* sequence of map insert and remove calls, iterating the underlying set
\* yields strictly increasing keys and len() equals the number of distinct
\* keys currently associated.
Thm_C37_OnePairPerKey ==
    ~panicked =>
        /\ DistinctKeys(heap, root, props.len)
        /\ props.len = Associated(assoc)

\* a map of two levels in which a key below the root is given another value:
\* the insert leaves one pair for the key
Wit_C37 ==
    /\ ~panicked
    /\ depth_from(heap, root) >= 2
    /\ DistinctKeys(heap, root, props.len)
    /\ \E key \in MapKeys :
       \E value \in Values :
       \E o \in BTreeMap_insert(props, heap, root, key, value) :
          /\ is_some(assoc[key])
          /\ assoc[key] # Some(value)
          /\ BTreeMap_get_root_only(heap, root, key) = {None}
          /\ DistinctKeys(o.heap, o.root, props.len)
          /\ BTreeMap_get(o.heap, o.root, key) = {Some(value)}


\* the deepest nesting of the recursive helpers in any insert or remove call
\* on the tree of the current state
DeepestNesting ==
    UNION {insert_nesting(props, heap, root, key) \cup
           remove_nesting(props, heap, root, key) : key \in Keys}

\* the iterator of iter() is exhausted after one call of next for every
\* stored key: the next call returns None and so does the one after it
IterEnds ==
    LET it == BTreeIter_after(heap, root, props.len)
        n1 == next(heap, it.stack)
        n2 == next(heap, n1.stack)
    IN  /\ Len(it.items) = props.len
        /\ n1.item = None
        /\ n2.item = None
        /\ n2.stack = n1.stack

\* Claim C38: every contains, insert and remove call on a reachable tree
\* terminates, and the nesting depth of the recursive helpers never exceeds
\* depth() of the tree at the start of the call plus one; an iterator returns
\* None after finitely many next() calls and keeps returning None afterwards.
Claim_C38_NestingWithinDepthPlusOne ==
    ~panicked =>
        /\ \A key \in Keys :
              \A d \in contains_steps(heap, root, key) : d <= depth(heap, root)
        /\ \A d \in DeepestNesting : d <= depth(heap, root) + 1
        /\ IterEnds

\* Claim C38, as the code has it: remove_from_node and
\* remove_from_internal_node call each other, so a node on the path can hold
\* two frames: the nesting of the insert helper is at most depth() + 1, that of
\* the removal helpers at most 2 * depth() - 1; contains visits at most depth()
\* nodes; the iterator ends and stays ended.
Thm_C38_NestingWithinTwiceDepth ==
    ~panicked =>
        /\ \A key \in Keys :
              /\ \A d \in contains_steps(heap, root, key) : d <= depth(heap, root)
              /\ \A d \in insert_nesting(props, heap, root, key) :
                    d <= depth(heap, root) + 1
              /\ \A d \in remove_nesting(props, heap, root, key) :
                    d >= 1 /\ d <= 2 * depth(heap, root) - 1
        /\ IterEnds

\* a removal on a tree of three levels nests five frames, and an insert on a
\* tree with a full root nests depth() + 1 frames
Wit_C38 ==
    /\ ~panicked
    /\ depth(heap, root) = 3
    /\ \E key \in Keys : 5 \in remove_nesting(props, heap, root, key)
    /\ props.len > 0
    /\ IterEnds


\* Claim C39: IntrusiveList::remove(item) called with an item whose link is
\* not part of this list (never pushed, or already removed) returns None and
\* leaves head, tail and len() unchanged, for every list state including a
\* list holding exactly one element.
Claim_C39_RemoveForeignIsNone ==
    ~panicked =>
        \A item \in Items \ Linked(list) :
            LET o == IntrusiveList_remove(list, item)
            IN  /\ ~o.panic
                /\ o.res = None
                /\ o.list.head = list.head
                /\ o.list.tail = list.tail
                /\ o.list.len = list.len

====
